---- MODULE Spec2Model ----
(***************************************************************************)
(* Thrust allocation and current limiting of the ROV (crate motor_math):   *)
(* the performance table (motor_preformance.rs), the geometry constructor, *)
(* erase / unerase and Direction (lib.rs), the layout builders (x3d.rs,    *)
(* blue_rov.rs), the solvers and the current-budget saturators             *)
(* (solve/forward.rs, solve/reverse.rs) over the seeded mapping            *)
(* (stable_hashmap), and the peer bookkeeping of the robot's network       *)
(* reader (robot/src/plugins/core/sync.rs).                                *)
(*                                                                         *)
(* Numbers.  The code computes in f32.  Here every f32 quantity is a       *)
(* fixed-point integer: record fields and caps count hundredths (force     *)
(* 500 is 5.00, current 600 is 6.00 A), pwm counts microseconds, and a     *)
(* force ratio counts 1/Scale.  One source expression is evaluated exactly *)
(* and rounded once to the grid (RDiv), where f32 rounds after every       *)
(* operation.  The model has no negative zero and no NaN.                  *)
(***************************************************************************)
EXTENDS Integers, Sequences, FiniteSets, TLC

VARIABLES
    csv,            \* the rows of the CSV file read by read_motor_data
    loaded,         \* "none" | "ok" | "err": outcome of read_motor_data
    motor_data,     \* MotorData: [force_index, current_index]
    lookup_result,  \* the last table lookup: [by, value, interpolation, out]
    motors_in,      \* the (Id, Motor) pairs handed to new_raw
    center_mass,    \* the centre of mass handed to new_raw
    motor_config,   \* MotorConfig: [motors, matrix, pseudo_inverse]
    front_right_top,       \* the seed motor handed to the X3D builder
    lateral_front_right,   \* the lateral seed handed to the BlueROV builder
    vertical_front_right,  \* the vertical seed handed to the BlueROV builder
    erased,         \* the MotorConfig<ErasedMotorId> erase returned
    unerased,       \* the last unerase: [target, result: [ok, config, error]]
    flip,           \* the last Direction calls: [direction, count, sign, out, back]
    motor_cmds,     \* the commands handed to the saturator
    amperage_cap,   \* the cap handed to the saturator
    epsilon,        \* the tolerance handed to clamp_amperage
    call,           \* "none" | "fast" | "iter": the saturator that was called
    round,          \* 1 for the first application, 2 for the re-application
    lower_bound, lower_current, upper_bound, upper_current, mid,
                    \* the locals of binary_search_force_ratio
    iters,          \* loop iterations begun so far (saturates at MaxIters)
    exit,           \* "none" | "zero" | "eps" | "early": how the call returned
    force_ratio,    \* what binary_search_force_ratio returned
    result,         \* the mapping the saturator returned
    first_result,   \* the mapping the first application returned
    lookups,        \* table lookups made by the current saturator call
    movement,       \* the Movement handed to reverse_solve: [force, torque]
    motor_forces,   \* the id -> force mapping handed to forward_solve / forces_to_cmds
    solved,         \* the last solver call: [fn, returned, out]
    hash_of,        \* the hash a hasher gives an id: seeds -> (id -> hash)
    inserted,       \* the ids of the input mapping in the order they were inserted
    runs,           \* per run: [fn, returned, out], out in iteration order
    net_events,     \* the NetEvents waiting in the channel net_read drains
    by_token,       \* Peers.by_token: token -> entity
    by_addrs,       \* Peers.by_addrs: address -> entity
    singleton_map,  \* SyncState.singleton_map: token.0 -> entity
    world,          \* the spawned peer entities: entity -> Peer [addrs, token]
    commands,       \* the deferred Commands queued by net_read, not yet applied
    entities,       \* entity ids reserved so far
    connected,      \* the connections the network thread holds: token -> address
    errors,         \* ErrorEvents sent by the last call of net_read
    pc              \* position of the one thread of control

tableVars  == <<csv, loaded, lookup_result>>
configVars == <<motors_in, center_mass, motor_config, front_right_top,
                lateral_front_right, vertical_front_right, erased, unerased, flip>>
clampVars  == <<motor_cmds, amperage_cap, epsilon, call, round, lower_bound,
                lower_current, upper_bound, upper_current, mid, iters, exit,
                force_ratio, result, first_result, lookups>>
solveVars  == <<movement, motor_forces, solved>>
runVars    == <<hash_of, inserted, runs>>
syncVars   == <<net_events, by_token, by_addrs, singleton_map, world, commands,
                entities, connected, errors>>
builderVars == <<front_right_top, lateral_front_right, vertical_front_right,
                 erased, unerased, flip>>
vars == <<csv, loaded, motor_data, lookup_result, motors_in, center_mass,
          motor_config, front_right_top, lateral_front_right,
          vertical_front_right, erased, unerased, flip,
          motor_cmds, amperage_cap, epsilon, call, round, lower_bound,
          lower_current, upper_bound, upper_current, mid, iters, exit,
          force_ratio, result, first_result, lookups, movement, motor_forces,
          solved, hash_of, inserted, runs, net_events, by_token, by_addrs, singleton_map, world,
          commands, entities, connected, errors, pc>>

----------------------------------------------------------------------------
(* Arithmetic *)

\* One unit of a force ratio is 1/Scale: D::one() is Scale.
Scale == 1000

\* f32::INFINITY: larger than every finite value the model reaches.
Infinity == 1000000000

Abs(x) == IF x < 0 THEN -x ELSE x

Sgn(x) == IF x < 0 THEN -1 ELSE IF x > 0 THEN 1 ELSE 0

Min(a, b) == IF a <= b THEN a ELSE b

Max(a, b) == IF a >= b THEN a ELSE b

\* a / b rounded to the nearest grid point (ties away from zero), b # 0.
RDiv(a, b) ==
    LET q == (2 * Abs(a) + Abs(b)) \div (2 * Abs(b))
    IN  IF (a < 0) # (b < 0) THEN -q ELSE q

\* usize subtraction: an underflow is Overflow.  A debug build panics there;
\* a release build wraps to a huge index, which then fails the bounds check.
Overflow == -1

UsizeSub(a, b) == IF a < b THEN Overflow ELSE a - b

----------------------------------------------------------------------------
(* MotorRecord and MotorData (motor_preformance.rs) *)

Fields == {"pwm", "rpm", "current", "voltage", "power", "force", "efficiency"}

Rec(pwm, rpm, current, voltage, power, force, efficiency) ==
    [pwm |-> pwm, rpm |-> rpm, current |-> current, voltage |-> voltage,
     power |-> power, force |-> force, efficiency |-> efficiency]

\* What a panicking call yields instead of a value.
Panic == [panic |-> TRUE]

IsPanic(r) == DOMAIN r = {"panic"}

\* x.current.copysign(x.force)
SignedCurrent(r) == IF r.force < 0 THEN -Abs(r.current) ELSE Abs(r.current)

ForceKey(r) == r.force

\* The sort keys of the rows of the two indices.
ForceKeys(rows) == [i \in 1..Len(rows) |-> ForceKey(rows[i])]

CurrentKeys(rows) == [i \in 1..Len(rows) |-> SignedCurrent(rows[i])]

\* Each element paired with its sort key: <<key, element>>.
Keyed(s, keys) == [i \in 1..Len(s) |-> <<keys[i], s[i]>>]

Unkeyed(ps) == [i \in 1..Len(ps) |-> ps[i][2]]

\* Vec::sort_by with a comparison of keys: a stable sort (each element goes
\* after the elements whose key is not greater).
RECURSIVE InsertPair(_, _)
InsertPair(ps, p) ==
    IF ps = <<>> THEN <<p>>
    ELSE IF p[1] < Head(ps)[1] THEN <<p>> \o ps
    ELSE <<Head(ps)>> \o InsertPair(Tail(ps), p)

RECURSIVE SortPairs(_)
SortPairs(ps) ==
    IF ps = <<>> THEN <<>>
    ELSE InsertPair(SortPairs(SubSeq(ps, 1, Len(ps) - 1)), ps[Len(ps)])

\* A dedup that keeps the last of the consecutive elements with an equal key.
RECURSIVE DedupPairsKeepLast(_)
DedupPairsKeepLast(ps) ==
    IF Len(ps) <= 1 THEN ps
    ELSE LET init == DedupPairsKeepLast(SubSeq(ps, 1, Len(ps) - 1))
             last == ps[Len(ps)]
         IN  IF last[1] = init[Len(init)][1]
             THEN Append(SubSeq(init, 1, Len(init) - 1), last)
             ELSE Append(init, last)

\* Vec::dedup_by / dedup_by_key: of consecutive elements with an equal key
\* the first stays and the later ones are removed.
RECURSIVE DedupPairs(_)
DedupPairs(ps) ==
    IF Len(ps) <= 1 THEN ps
    ELSE LET init == DedupPairs(SubSeq(ps, 1, Len(ps) - 1))
             last == ps[Len(ps)]
         IN  IF last[1] = init[Len(init)][1] THEN init
             ELSE Append(init, last)

\* sort_by on the key, then dedup_by_key on the same key.
SortDedup(s, keys) == Unkeyed(DedupPairs(SortPairs(Keyed(s, keys))))

\* A From that sorts and de-duplicates both indices on the force.
MotorDataFromForceOnly(value) ==
    [force_index   |-> SortDedup(value, ForceKeys(value)),
     current_index |-> SortDedup(value, ForceKeys(value))]

\* impl From<Vec<MotorRecord<f32>>> for MotorData
MotorDataFrom(value) ==
    [force_index   |-> SortDedup(value, ForceKeys(value)),
     current_index |-> SortDedup(value, CurrentKeys(value))]

NoData == [force_index |-> <<>>, current_index |-> <<>>]

----------------------------------------------------------------------------
(* Lookups (motor_preformance.rs) *)

Clockwise == "Clockwise"

CounterClockwise == "CounterClockwise"

Directions == {Clockwise, CounterClockwise}

\* enum Interpolation; Lerp and OriginalData carry no direction.
LerpDirection(direction) == [kind |-> "LerpDirection", direction |-> direction]

Direction(direction) == [kind |-> "Direction", direction |-> direction]

Lerp == [kind |-> "Lerp", direction |-> "none"]

OriginalData == [kind |-> "OriginalData", direction |-> "none"]

Interpolations ==
    {LerpDirection(d) : d \in Directions} \cup {Direction(d) : d \in Directions}
        \cup {Lerp, OriginalData}

\* The pwm of a counter-clockwise propeller is 3000 - pwm.
PwmReflect == 3000

\* slice::partition_point: the length of the longest prefix whose keys are
\* below v (the indices are sorted, so this is what the binary search finds).
PartitionPoint(keys, v) ==
    Cardinality({i \in 1..Len(keys) : \A j \in 1..i : keys[j] < v})

\* fn lerp(a, b, alpha) = (1 - alpha) * a + alpha * b, alpha = num / den.
LerpField(a, b, alpha) ==
    RDiv((alpha.den - alpha.num) * a + alpha.num * b, alpha.den)

\* MotorRecord::lerp: every field is interpolated with the same alpha.
RecordLerp(a, b, alpha) == [f \in Fields |-> LerpField(a[f], b[f], alpha)]

\* An interpolate that reflects the pwm whatever the interpolation.
InterpolateReflectAll(a, b, value, value_a, value_b, interpolation) ==
    LET record ==
            IF interpolation.kind \in {"LerpDirection", "Lerp"}
            THEN RecordLerp(a, b, [num |-> value - value_a, den |-> value_b - value_a])
            ELSE IF Abs(value_a - value) <= Abs(value_b - value) THEN a ELSE b
    IN  [record EXCEPT !.pwm = PwmReflect - record.pwm]

\* An interpolate whose nearest-row choice takes the upper row on a tie.
InterpolateUpperOnTie(a, b, value, value_a, value_b, interpolation) ==
    LET record ==
            IF interpolation.kind \in {"LerpDirection", "Lerp"}
            THEN RecordLerp(a, b, [num |-> value - value_a, den |-> value_b - value_a])
            ELSE IF Abs(value_a - value) < Abs(value_b - value) THEN a ELSE b
    IN  IF /\ interpolation.kind \in {"LerpDirection", "Direction"}
           /\ interpolation.direction = CounterClockwise
        THEN [record EXCEPT !.pwm = PwmReflect - record.pwm]
        ELSE record

\* MotorData::interpolate
Interpolate(a, b, value, value_a, value_b, interpolation) ==
    LET record ==
            IF interpolation.kind \in {"LerpDirection", "Lerp"}
            THEN RecordLerp(a, b, [num |-> value - value_a, den |-> value_b - value_a])
            ELSE LET dist_a == Abs(value_a - value)
                     dist_b == Abs(value_b - value)
                 IN  IF dist_a <= dist_b THEN a ELSE b
    IN  IF /\ interpolation.kind \in {"LerpDirection", "Direction"}
           /\ interpolation.direction = CounterClockwise
        THEN [record EXCEPT !.pwm = PwmReflect - record.pwm]
        ELSE record

\* A lookup that brings the value into the range of the keys first.
LookupInClamped(index, keys, value, interpolation) ==
    IF Len(index) < 2 THEN Panic
    ELSE LET clamped == Min(Max(value, keys[1]), keys[Len(keys)])
             idx_b   == Min(Max(PartitionPoint(keys, clamped), 1), Len(index) - 1)
         IN  Interpolate(index[idx_b], index[idx_b + 1], clamped,
                         keys[idx_b], keys[idx_b + 1], interpolation)

\* The body shared by lookup_by_force and lookup_by_current: the rows idx_a
\* and idx_b (0-based) of the index are interpolated.  len - 1 and idx_b - 1
\* are usize subtractions.
LookupIn(index, keys, value, interpolation) ==
    LET partition_point == PartitionPoint(keys, value)
        last            == UsizeSub(Len(index), 1)
        idx_b           == IF last = Overflow THEN Overflow
                           ELSE Min(Max(partition_point, 1), last)
        idx_a           == IF idx_b = Overflow THEN Overflow
                           ELSE UsizeSub(idx_b, 1)
    IN  IF idx_a = Overflow THEN Panic
        ELSE Interpolate(index[idx_a + 1], index[idx_b + 1], value,
                         keys[idx_a + 1], keys[idx_b + 1], interpolation)

\* MotorData::lookup_by_force
LookupByForce(md, force, interpolation) ==
    LookupIn(md.force_index, ForceKeys(md.force_index), force, interpolation)

\* MotorData::lookup_by_current
LookupByCurrent(md, signed_current, interpolation) ==
    LookupIn(md.current_index, CurrentKeys(md.current_index), signed_current,
             interpolation)

\* read_motor_data: a row that does not parse as a MotorRecord<f32> ends the
\* load with the error; otherwise the rows go through From<Vec<MotorRecord>>.
BadRow == [bad |-> TRUE]

ReadMotorDataResult(rows) ==
    IF \E i \in 1..Len(rows) : rows[i] = BadRow
    THEN [ok |-> FALSE, data |-> NoData]
    ELSE [ok |-> TRUE, data |-> MotorDataFrom(rows)]

----------------------------------------------------------------------------
(* MotorConfig (lib.rs) *)

\* struct Motor
Motor(position, orientation, direction) ==
    [position |-> position, orientation |-> orientation, direction |-> direction]

\* Vector3 subtraction and cross product.
VecSub(u, v) == <<u[1] - v[1], u[2] - v[2], u[3] - v[3]>>

Cross(u, v) ==
    <<u[2] * v[3] - u[3] * v[2], u[3] * v[1] - u[1] * v[3], u[1] * v[2] - u[2] * v[1]>>

\* A column whose torque is taken about the origin, not the centre of mass.
MatrixColumnAboutOrigin(motor, com) ==
    motor.orientation \o Cross(motor.position, motor.orientation)

\* The column of the 6 x N matrix for one motor: force rows, then torque rows.
MatrixColumn(motor, com) ==
    motor.orientation \o Cross(VecSub(motor.position, com), motor.orientation)

\* motors.sort_by(|a, b| MotorId::cmp(&a.0, &b.0)); motors.dedup_by(|a, b| a.0 == b.0)
\* on the collected <<id, motor>> pairs.
SortedDedupedMotors(motors) == DedupPairs(SortPairs(motors))

\* The dot product of two columns of the matrix.
Dot6(u, v) ==
    u[1] * v[1] + u[2] * v[2] + u[3] * v[3] + u[4] * v[4] + u[5] * v[5] + u[6] * v[6]

\* The columns are not zero and are orthogonal to one another.
OrthogonalColumns(matrix) ==
    /\ matrix # <<>>
    /\ \A k \in 1..Len(matrix) : Dot6(matrix[k], matrix[k]) # 0
    /\ \A k, l \in 1..Len(matrix) : k # l => Dot6(matrix[k], matrix[l]) = 0

\* matrix.pseudo_inverse(0.0001): nalgebra computes it from the singular
\* values.  For a matrix of orthogonal columns the N x 6 result has the
\* closed form row k = column k / |column k|^2 (entries in units of 1/Scale);
\* for any other matrix it is here the value determined by the matrix it was
\* computed from.
PseudoInverse(matrix) ==
    IF OrthogonalColumns(matrix)
    THEN [k \in 1..Len(matrix) |->
             [j \in 1..6 |-> RDiv(matrix[k][j] * Scale, Dot6(matrix[k], matrix[k]))]]
    ELSE [pseudo_inverse_of |-> matrix]

\* MotorConfig::new_raw
NewRaw(motors, com) ==
    LET kept   == SortedDedupedMotors(motors)
        matrix == [k \in 1..Len(kept) |-> MatrixColumn(kept[k][2], com)]
    IN  [motors |-> kept, matrix |-> matrix, pseudo_inverse |-> PseudoInverse(matrix)]

\* No config built yet.
NoConfig == [motors |-> <<>>, matrix |-> <<>>, pseudo_inverse |-> <<>>]

\* MotorConfig::motor: the first motor with the id, if any.
HasMotor(config, id) == \E k \in 1..Len(config.motors) : config.motors[k][1] = id

MotorOf(config, id) ==
    LET k == CHOOSE k \in 1..Len(config.motors) :
                 /\ config.motors[k][1] = id
                 /\ \A j \in 1..(k - 1) : config.motors[j][1] # id
    IN  config.motors[k][2]

----------------------------------------------------------------------------
(* Direction (lib.rs) and the reflections (utils.rs) *)

\* Direction::get_sign
GetSign(direction) == IF direction = Clockwise THEN 1 ELSE -1

\* f32::signum: 1.0 for a positive number and for +0.0, -1.0 for a negative.
Signum(x) == IF x >= 0 THEN 1 ELSE -1

\* Direction::from_sign
FromSign(sign) == IF Signum(sign) = 1 THEN Clockwise ELSE CounterClockwise

\* f32::powi: repeated multiplication, the reciprocal for a negative power.
RECURSIVE Powi(_, _)
Powi(x, n) ==
    IF n = 0 THEN 1
    ELSE IF n < 0 THEN RDiv(1, Powi(x, -n))
    ELSE x * Powi(x, n - 1)

\* A flip_n that flips once whatever the count.
FlipOnce(direction, count) == FromSign(GetSign(direction) * (-1))

\* Direction::flip_n
FlipN(direction, count) == FromSign(GetSign(direction) * Powi(-1, count))

\* enum VectorTransform
ReflectXY == "ReflectXY"

ReflectYZ == "ReflectYZ"

ReflectXZ == "ReflectXZ"

\* A transform whose planes are one axis off.
TransformShifted(transform, vec) ==
    IF transform = ReflectXY THEN <<-vec[1], vec[2], vec[3]>>
    ELSE IF transform = ReflectYZ THEN <<vec[1], -vec[2], vec[3]>>
    ELSE <<vec[1], vec[2], -vec[3]>>

\* VectorTransform::transform
Transform(transform, vec) ==
    IF transform = ReflectXY THEN <<vec[1], vec[2], -vec[3]>>
    ELSE IF transform = ReflectYZ THEN <<-vec[1], vec[2], vec[3]>>
    ELSE <<vec[1], -vec[2], vec[3]>>

\* transforms.iter().fold(vec, |vec, transform| transform.transform(vec))
RECURSIVE ApplyTransforms(_, _)
ApplyTransforms(transforms, vec) ==
    IF transforms = <<>> THEN vec
    ELSE ApplyTransforms(Tail(transforms), Transform(Head(transforms), vec))

\* The motor a builder makes of a seed and a list of transforms.
Reflected(seed, transforms) ==
    Motor(ApplyTransforms(transforms, seed.position),
          ApplyTransforms(transforms, seed.orientation),
          FlipN(seed.direction, Len(transforms)))

----------------------------------------------------------------------------
(* Typed motor ids (x3d.rs, blue_rov.rs) and the erased id (lib.rs) *)

\* A typed id is the base of its enum plus its discriminant; the derived Ord
\* of an enum is the order of the discriminants.  An ErasedMotorId is a u8.
X3dBase == 100

HeavyBase == 200

\* Variants of X3dMotorId and of HeavyMotorId.
NumVariants == 8

\* enum X3dMotorId, #[repr(u8)]
FrontRightTop == X3dBase + 0

FrontRightBottom == X3dBase + 1

FrontLeftTop == X3dBase + 2

FrontLeftBottom == X3dBase + 3

BackRightTop == X3dBase + 4

BackRightBottom == X3dBase + 5

BackLeftTop == X3dBase + 6

BackLeftBottom == X3dBase + 7

X3dMotorId == {X3dBase + n : n \in 0..(NumVariants - 1)}

\* enum HeavyMotorId, #[repr(u8)]
LateralFrontLeft == HeavyBase + 0

LateralFrontRight == HeavyBase + 1

LateralBackLeft == HeavyBase + 2

LateralBackRight == HeavyBase + 3

VerticalFrontLeft == HeavyBase + 4

VerticalFrontRight == HeavyBase + 5

VerticalBackLeft == HeavyBase + 6

VerticalBackRight == HeavyBase + 7

HeavyMotorId == {HeavyBase + n : n \in 0..(NumVariants - 1)}

IdTypes == {"X3dMotorId", "HeavyMotorId"}

BaseOf(id_type) == IF id_type = "X3dMotorId" THEN X3dBase ELSE HeavyBase

\* impl From<X3dMotorId> for u8, impl From<HeavyMotorId> for u8 (IntoPrimitive)
IntoU8(id) == IF id \in HeavyMotorId THEN id - HeavyBase ELSE id - X3dBase

\* impl TryFrom<u8> (TryFromPrimitive): the variant with the discriminant, or
\* the error that carries the number.
TryFromU8(id_type, number) ==
    IF number < NumVariants
    THEN [ok |-> TRUE, id |-> BaseOf(id_type) + number]
    ELSE [ok |-> FALSE, error |-> [number |-> number]]

----------------------------------------------------------------------------
(* The builders (x3d.rs, blue_rov.rs) and erase / unerase (lib.rs) *)

\* MotorConfig<X3dMotorId, D>::new: the pairs in the order of the source.
X3dMotors(seed) ==
    << <<FrontRightTop, Reflected(seed, <<>>)>>,
       <<FrontRightBottom, Reflected(seed, <<ReflectXY>>)>>,
       <<FrontLeftTop, Reflected(seed, <<ReflectYZ>>)>>,
       <<BackRightTop, Reflected(seed, <<ReflectXZ>>)>>,
       <<FrontLeftBottom, Reflected(seed, <<ReflectXY, ReflectYZ>>)>>,
       <<BackLeftTop, Reflected(seed, <<ReflectYZ, ReflectXZ>>)>>,
       <<BackRightBottom, Reflected(seed, <<ReflectXZ, ReflectXY>>)>>,
       <<BackLeftBottom, Reflected(seed, <<ReflectXY, ReflectYZ, ReflectXZ>>)>> >>

X3dNew(seed, com) == NewRaw(X3dMotors(seed), com)

\* A builder that makes the vertical motors of the lateral seed too.
HeavyMotorsOneSeed(lateral, vertical) ==
    << <<LateralFrontRight, Reflected(lateral, <<>>)>>,
       <<LateralFrontLeft, Reflected(lateral, <<ReflectYZ>>)>>,
       <<LateralBackRight, Reflected(lateral, <<ReflectXZ>>)>>,
       <<LateralBackLeft, Reflected(lateral, <<ReflectYZ, ReflectXZ>>)>>,
       <<VerticalFrontRight, Reflected(lateral, <<>>)>>,
       <<VerticalFrontLeft, Reflected(lateral, <<ReflectYZ>>)>>,
       <<VerticalBackRight, Reflected(lateral, <<ReflectXZ>>)>>,
       <<VerticalBackLeft, Reflected(lateral, <<ReflectYZ, ReflectXZ>>)>> >>

\* MotorConfig<HeavyMotorId, D>::new: the pairs in the order of the source.
HeavyMotors(lateral, vertical) ==
    << <<LateralFrontRight, Reflected(lateral, <<>>)>>,
       <<LateralFrontLeft, Reflected(lateral, <<ReflectYZ>>)>>,
       <<LateralBackRight, Reflected(lateral, <<ReflectXZ>>)>>,
       <<LateralBackLeft, Reflected(lateral, <<ReflectYZ, ReflectXZ>>)>>,
       <<VerticalFrontRight, Reflected(vertical, <<>>)>>,
       <<VerticalFrontLeft, Reflected(vertical, <<ReflectYZ>>)>>,
       <<VerticalBackRight, Reflected(vertical, <<ReflectXZ>>)>>,
       <<VerticalBackLeft, Reflected(vertical, <<ReflectYZ, ReflectXZ>>)>> >>

HeavyNew(lateral, vertical, com) == NewRaw(HeavyMotors(lateral, vertical), com)

\* An erase that recomputes the matrix about the origin.
EraseRebuilt(config) ==
    NewRaw([k \in 1..Len(config.motors) |->
               <<IntoU8(config.motors[k][1]), config.motors[k][2]>>],
           <<0, 0, 0>>)

\* MotorConfig::erase: every id becomes its u8; the rest is moved.
Erase(config) ==
    [motors         |-> [k \in 1..Len(config.motors) |->
                            <<IntoU8(config.motors[k][1]), config.motors[k][2]>>],
     matrix         |-> config.matrix,
     pseudo_inverse |-> config.pseudo_inverse]

\* The result of an unerase: a config or the conversion error.
UneraseOk(config) == [ok |-> TRUE, config |-> config, error |-> <<>>]

UneraseErr(error) == [ok |-> FALSE, config |-> <<>>, error |-> error]

\* An unerase that leaves out the ids that do not decode.
UneraseLenient(config, id_type) ==
    LET good == SelectSeq(config.motors, LAMBDA m : TryFromU8(id_type, m[1]).ok)
    IN  UneraseOk([motors         |-> [k \in 1..Len(good) |->
                                          <<TryFromU8(id_type, good[k][1]).id, good[k][2]>>],
                   matrix         |-> config.matrix,
                   pseudo_inverse |-> config.pseudo_inverse])

\* MotorConfig::unerase: collect::<Result<_, _>>()? returns the error of the
\* first id that does not decode; otherwise every id becomes its typed id.
Unerase(config, id_type) ==
    LET decoded == [k \in 1..Len(config.motors) |-> TryFromU8(id_type, config.motors[k][1])]
        bad     == {k \in 1..Len(decoded) : ~decoded[k].ok}
    IN  IF bad # {}
        THEN UneraseErr(decoded[CHOOSE k \in bad : \A j \in bad : k <= j].error)
        ELSE UneraseOk([motors         |-> [k \in 1..Len(decoded) |->
                                               <<decoded[k].id, config.motors[k][2]>>],
                        matrix         |-> config.matrix,
                        pseudo_inverse |-> config.pseudo_inverse])

\* Nothing erased, unerased or flipped yet.
NoUnerase == [target |-> "none", result |-> UneraseErr(<<>>)]

NoFlip == [direction |-> Clockwise, count |-> 0, sign |-> 0, out |-> Clockwise,
           back |-> Clockwise]

IdleBuild ==
    /\ front_right_top = <<>> /\ lateral_front_right = <<>>
    /\ vertical_front_right = <<>>
    /\ erased = NoConfig /\ unerased = NoUnerase /\ flip = NoFlip

----------------------------------------------------------------------------
(* Commands and the current-budget saturators (solve/reverse.rs) *)

RECURSIVE SumOver(_, _)
SumOver(f, S) ==
    IF S = {} THEN 0
    ELSE LET x == CHOOSE x \in S : TRUE
         IN  f[x] + SumOver(f, S \ {x})

\* motor_cmds.values().map(|it| it.current).sum()
SumCurrent(cmds) == SumOver([id \in DOMAIN cmds |-> cmds[id].current], DOMAIN cmds)

\* motor_config.motor(&motor_id).map(|it| it.direction).unwrap_or(Clockwise)
DirectionOf(config, id) ==
    IF HasMotor(config, id) THEN MotorOf(config, id).direction ELSE Clockwise

\* A forces_to_cmds that leaves out the ids the config lacks.
ForcesToCmdsSkipUnknown(forces, config, md) ==
    LET cmds == [id \in {i \in DOMAIN forces : HasMotor(config, i)} |->
                    LookupByForce(md, forces[id],
                                  LerpDirection(MotorOf(config, id).direction))]
    IN  IF \E id \in DOMAIN cmds : IsPanic(cmds[id])
        THEN [ok |-> FALSE, cmds |-> <<>>]
        ELSE [ok |-> TRUE, cmds |-> cmds]

\* forces_to_cmds as an outcome: expect("Bad motor id") panics on an id the
\* config lacks and a lookup may panic (ok is FALSE); otherwise the commands.
ForcesToCmdsResult(forces, config, md) ==
    IF \E id \in DOMAIN forces : ~HasMotor(config, id)
    THEN [ok |-> FALSE, cmds |-> <<>>]
    ELSE LET cmds == [id \in DOMAIN forces |->
                         LookupByForce(md, forces[id],
                                       LerpDirection(MotorOf(config, id).direction))]
         IN  IF \E id \in DOMAIN cmds : IsPanic(cmds[id])
             THEN [ok |-> FALSE, cmds |-> <<>>]
             ELSE [ok |-> TRUE, cmds |-> cmds]

\* forces_to_cmds: the commands, or the panic.
ForcesToCmds(forces, config, md) ==
    LET r == ForcesToCmdsResult(forces, config, md)
    IN  IF r.ok THEN r.cmds ELSE Panic

\* The early return of both saturators: amperage_total.re() <= amperage_cap.
UnderCap(cmds, cap) == SumCurrent(cmds) <= cap

\* data.current.copysign(data.force) * (cap / amperage_total)
AdjustedCurrent(data, cap, total) == RDiv(SignedCurrent(data) * cap, total)

\* A clamp_amperage_fast whose early return hands back the fresh, still empty
\* adjusted map in place of the input.
ClampAmperageFastEmptyEarly(cmds, config, md, cap) ==
    IF UnderCap(cmds, cap) THEN <<>>
    ELSE [id \in DOMAIN cmds |->
             LookupByCurrent(md, AdjustedCurrent(cmds[id], cap, SumCurrent(cmds)),
                             LerpDirection(DirectionOf(config, id)))]

\* clamp_amperage_fast
ClampAmperageFast(cmds, config, md, cap) ==
    IF UnderCap(cmds, cap) THEN cmds
    ELSE [id \in DOMAIN cmds |->
             LookupByCurrent(md, AdjustedCurrent(cmds[id], cap, SumCurrent(cmds)),
                             LerpDirection(DirectionOf(config, id)))]

\* data.force * mid, for a ratio in units of 1/Scale
ScaleForce(force, ratio) == RDiv(force * ratio, Scale)

\* A closing loop that scales the current field where the force is meant.
CmdsAtRatioByCurrent(cmds, config, md, ratio) ==
    [id \in DOMAIN cmds |->
        LookupByForce(md, ScaleForce(cmds[id].current, ratio),
                      LerpDirection(DirectionOf(config, id)))]

\* The commands looked up by force at one shared ratio: the loop body of
\* binary_search_force_ratio and the closing loop of clamp_amperage.
CmdsAtRatio(cmds, config, md, ratio) ==
    [id \in DOMAIN cmds |->
        LookupByForce(md, ScaleForce(cmds[id].force, ratio),
                      LerpDirection(DirectionOf(config, id)))]

\* A closing loop that divides the ratio of each thruster by its id.
AdjustedMotorCmdsOwnRatio(cmds, config, md, ratio) ==
    [id \in DOMAIN cmds |->
        LookupByForce(md, ScaleForce(cmds[id].force, ratio \div id),
                      LerpDirection(DirectionOf(config, id)))]

\* adjusted_motor_cmds of clamp_amperage: every command looked up at its
\* force times force_ratio.
AdjustedMotorCmds(cmds, config, md, ratio) == CmdsAtRatio(cmds, config, md, ratio)

\* mid_current of binary_search_force_ratio
MidCurrent(cmds, config, md, ratio) == SumCurrent(CmdsAtRatio(cmds, config, md, ratio))

\* The two exits of the loop, in the order the code tests them.
ZeroExit(mid_current) == mid_current = 0

EpsExit(mid_current, cap, eps) == Abs(mid_current - cap) < eps

\* A loop that returns mid at either exit.
ReturnedRatioMid(mid_current, ratio) == ratio

\* What the loop returns at an exit: D::one() at the zero exit, mid otherwise.
ReturnedRatio(mid_current, ratio) == IF ZeroExit(mid_current) THEN Scale ELSE ratio

\* The bounds after the update of one iteration that did not exit.
UpdatedBounds(lb, lc, ub, uc, ratio, mid_current, cap) ==
    IF mid_current >= cap
    THEN [lower_bound |-> lb, lower_current |-> lc,
          upper_bound |-> ratio, upper_current |-> mid_current]
    ELSE [lower_bound |-> ratio, lower_current |-> mid_current,
          upper_bound |-> ub, upper_current |-> uc]

\* The next mid: mid * cap / mid_current while the upper bound is infinite,
\* else upper_bound * alpha + lower_bound * (1 - alpha) with
\* alpha = (cap - lower_current) / (upper_current - lower_current).
NextMid(b, ratio, mid_current, cap) ==
    IF b.upper_bound = Infinity
    THEN RDiv(ratio * cap, mid_current)
    ELSE RDiv(b.upper_bound * (cap - b.lower_current)
                  + b.lower_bound * (b.upper_current - cap),
              b.upper_current - b.lower_current)

----------------------------------------------------------------------------
(* The solvers (solve/reverse.rs, solve/forward.rs) *)

\* struct Movement
Movement(force, torque) == [force |-> force, torque |-> torque]

\* impl Mul<D> for Movement: every component times the scalar.
MovementMul(m, x) ==
    Movement([i \in 1..3 |-> m.force[i] * x], [i \in 1..3 |-> m.torque[i] * x])

\* movement_vec: the force then the torque, flattened into a Vector6.
MovementVec(m) == m.force \o m.torque

\* The ids of the config's motors.
ConfigIds(config) == {config.motors[k][1] : k \in 1..Len(config.motors)}

\* The position in config.motors of the last motor with the id (an insert
\* replaces the value of an earlier one).
LastIndexOf(config, id) ==
    CHOOSE k \in 1..Len(config.motors) :
        /\ config.motors[k][1] = id
        /\ \A j \in (k + 1)..Len(config.motors) : config.motors[j][1] # id

\* A reverse_solve that packs the torque before the force.
ReverseSolveTorqueFirst(m, config) ==
    LET forces == [k \in 1..Len(config.pseudo_inverse) |->
                      RDiv(Dot6(config.pseudo_inverse[k], m.torque \o m.force), Scale)]
    IN  [id \in ConfigIds(config) |-> forces[LastIndexOf(config, id)]]

\* reverse_solve: pseudo_inverse * movement_vec, zipped with the motors.
ReverseSolve(m, config) ==
    LET forces == [k \in 1..Len(config.pseudo_inverse) |->
                      RDiv(Dot6(config.pseudo_inverse[k], MovementVec(m)), Scale)]
    IN  [id \in ConfigIds(config) |-> forces[LastIndexOf(config, id)]]

\* force_vec of forward_solve: motor_forces.get(id).cloned().unwrap_or(zero)
\* for the motors in their order.
ForceVec(config, forces) ==
    [k \in 1..Len(config.motors) |->
        IF config.motors[k][1] \in DOMAIN forces THEN forces[config.motors[k][1]] ELSE 0]

\* matrix * force_vec: row j of the product.
MatrixTimes(matrix, vec) ==
    [j \in 1..6 |-> SumOver([k \in 1..Len(matrix) |-> matrix[k][j] * vec[k]],
                            1..Len(matrix))]

\* A forward_solve that takes the forces in the order of the mapping's ids,
\* not looking them up by the motors' ids.
ForwardSolveByPosition(config, forces) ==
    LET present == {k \in 1..Len(config.motors) : k \in DOMAIN forces}
        vec     == [k \in 1..Len(config.motors) |->
                       IF k \in present THEN forces[k] ELSE 0]
        mv      == MatrixTimes(config.matrix, vec)
    IN  Movement(SubSeq(mv, 1, 3), SubSeq(mv, 4, 6))

\* forward_solve
ForwardSolve(config, forces) ==
    LET mv == MatrixTimes(config.matrix, ForceVec(config, forces))
    IN  Movement(SubSeq(mv, 1, 3), SubSeq(mv, 4, 6))

\* enum Axis, in the order axis_maximums lists it.
Axes == <<"X", "Y", "Z", "XRot", "YRot", "ZRot">>

\* Axis::movement: one in the component of the axis, zero elsewhere.
AxisMovement(axis) ==
    LET unit == [i \in 1..6 |-> IF Axes[i] = axis THEN 1 ELSE 0]
    IN  Movement(SubSeq(unit, 1, 3), SubSeq(unit, 4, 6))

\* let initial = 25.0, in hundredths.
InitialForce == 2500

\* Force ratios above 10 are not followed: the ratio climbs that far only
\* where the summed current does not respond to it, and there the loop goes
\* on multiplying the ratio by the same factor without reaching an exit.
RatioLimit == 10000

\* The loop of binary_search_force_ratio run from the locals l for at most
\* fuel further iterations: the ratio it returns, or no return within them.
RECURSIVE BinarySearchFrom(_, _, _, _, _, _, _)
BinarySearchFrom(cmds, config, md, cap, eps, l, fuel) ==
    LET mid_current == MidCurrent(cmds, config, md, l.mid)
    IN  IF ZeroExit(mid_current) \/ EpsExit(mid_current, cap, eps)
        THEN [returned |-> TRUE, ratio |-> ReturnedRatio(mid_current, l.mid)]
        ELSE LET b    == UpdatedBounds(l.lower_bound, l.lower_current, l.upper_bound,
                                       l.upper_current, l.mid, mid_current, cap)
                 next == NextMid(b, l.mid, mid_current, cap)
             IN  IF fuel = 0 \/ next > RatioLimit
                 THEN [returned |-> FALSE, ratio |-> 0]
                 ELSE BinarySearchFrom(cmds, config, md, cap, eps,
                                       [lower_bound   |-> b.lower_bound,
                                        lower_current |-> b.lower_current,
                                        upper_bound   |-> b.upper_bound,
                                        upper_current |-> b.upper_current,
                                        mid           |-> next],
                                       fuel - 1)

\* The locals binary_search_force_ratio begins with.
InitialLocals ==
    [lower_bound |-> 0, lower_current |-> 0,
     upper_bound |-> Infinity, upper_current |-> Infinity, mid |-> Scale]

\* The closure axis_maximums maps over the axes, for a wrench along one axis:
\* the ratio the bisection returns within fuel iterations, if it returns.
AxisScale(axis_movement, config, md, cap, eps, fuel) ==
    LET forces == ReverseSolve(MovementMul(axis_movement, InitialForce), config)
        cmds   == ForcesToCmds(forces, config, md)
    IN  BinarySearchFrom(cmds, config, md, cap, eps, InitialLocals, fuel)

\* An axis_maximums that probes the force axes only, and uses the force
\* probe of the same index for a rotation axis.
AxisMaximumsForceOnly(config, md, cap, eps, fuel) ==
    LET scale == [i \in 1..6 |->
                     AxisScale(AxisMovement(Axes[((i - 1) % 3) + 1]), config, md,
                               cap, eps, fuel)]
    IN  IF \E i \in 1..6 : ~scale[i].returned
        THEN [returned |-> FALSE, out |-> <<>>]
        ELSE [returned |-> TRUE,
              out |-> [axis \in {Axes[i] : i \in 1..6} |->
                          LET i == CHOOSE i \in 1..6 : Axes[i] = axis
                          IN  RDiv(scale[i].ratio * InitialForce, Scale)]]

\* axis_maximums: it returns once the bisection has returned for each axis.
AxisMaximums(config, md, cap, eps, fuel) ==
    LET scale == [i \in 1..6 |->
                     AxisScale(AxisMovement(Axes[i]), config, md, cap, eps, fuel)]
    IN  IF \E i \in 1..6 : ~scale[i].returned
        THEN [returned |-> FALSE, out |-> <<>>]
        ELSE [returned |-> TRUE,
              out |-> [axis \in {Axes[i] : i \in 1..6} |->
                          LET i == CHOOSE i \in 1..6 : Axes[i] = axis
                          IN  RDiv(scale[i].ratio * InitialForce, Scale)]]

----------------------------------------------------------------------------
(* The table specification: load a CSV, then look values up. *)

\* Longest CSV the table specification reads.
MaxRows == 3

\* Rows a CSV is made of: a reverse row, the neutral row, two forward rows
\* with the same force, and a forward row that shares its current with one
\* of them.
RowPool ==
    { Rec(1300, 2000, 600, 1600, 9600, -400, 40),
      Rec(1500, 0, 0, 1600, 0, 0, 0),
      Rec(1700, 2400, 600, 1600, 9600, 500, 50),
      Rec(1720, 2500, 700, 1600, 11200, 500, 45),
      Rec(1760, 2700, 700, 1600, 11200, 600, 54) }

CsvRows == RowPool \cup {BadRow}

RECURSIVE SeqsUpTo(_, _)
SeqsUpTo(S, n) ==
    IF n = 0 THEN {<<>>}
    ELSE LET shorter == SeqsUpTo(S, n - 1)
         IN  shorter \cup {Append(s, x) : s \in {t \in shorter : Len(t) = n - 1}, x \in S}

\* Values looked up: below, between, on and above the tabulated keys.
LookupValues == {-500, -100, 0, 250, 500, 600, 900}

NoLookup == [by |-> "none", value |-> 0, interpolation |-> Lerp, out |-> Panic]

IdleClamp ==
    /\ motor_cmds = <<>> /\ amperage_cap = 0 /\ epsilon = 0 /\ call = "none"
    /\ round = 0 /\ lower_bound = 0 /\ lower_current = 0 /\ upper_bound = 0
    /\ upper_current = 0 /\ mid = 0 /\ iters = 0 /\ exit = "none"
    /\ force_ratio = 0 /\ result = <<>> /\ first_result = <<>> /\ lookups = 0

IdleConfig ==
    /\ motors_in = <<>>
    /\ center_mass = <<0, 0, 0>>
    /\ motor_config = NoConfig
    /\ IdleBuild

IdleTable == csv = <<>> /\ loaded = "none" /\ lookup_result = NoLookup

NoSolve == [fn |-> "none", returned |-> FALSE, out |-> <<>>]

IdleSolve == movement = <<>> /\ motor_forces = <<>> /\ solved = NoSolve

IdleRuns == hash_of = <<>> /\ inserted = <<>> /\ runs = <<>>

IdleSync ==
    /\ net_events = <<>> /\ by_token = <<>> /\ by_addrs = <<>>
    /\ singleton_map = <<>> /\ world = <<>> /\ commands = <<>> /\ entities = 0
    /\ connected = <<>> /\ errors = 0

InitTable ==
    /\ IdleSolve /\ IdleRuns /\ IdleSync
    /\ csv \in SeqsUpTo(CsvRows, MaxRows)
    /\ loaded = "none"
    /\ motor_data = NoData
    /\ lookup_result = NoLookup
    /\ pc = "start"
    /\ IdleConfig
    /\ IdleClamp

\* read_motor_data(path)
ReadMotorData ==
    /\ pc = "start"
    /\ LET r == ReadMotorDataResult(csv)
       IN  /\ loaded' = IF r.ok THEN "ok" ELSE "err"
           /\ motor_data' = r.data
           /\ pc' = IF r.ok THEN "loaded" ELSE "failed"
    /\ UNCHANGED <<csv, lookup_result>>
    /\ UNCHANGED <<configVars, clampVars, solveVars, runVars, syncVars>>

\* motor_data.lookup_by_force(force, interpolation).  A lookup only reads the
\* table, so a behaviour makes one lookup on the table it loaded.
CallLookupByForce ==
    /\ pc = "loaded"
    /\ \E force \in LookupValues, interpolation \in Interpolations :
          LET out == LookupByForce(motor_data, force, interpolation)
          IN  /\ lookup_result' = [by |-> "force", value |-> force,
                                   interpolation |-> interpolation, out |-> out]
              /\ pc' = IF IsPanic(out) THEN "panic" ELSE "returned"
    /\ UNCHANGED <<csv, loaded, motor_data>>
    /\ UNCHANGED <<configVars, clampVars, solveVars, runVars, syncVars>>

\* motor_data.lookup_by_current(signed_current, interpolation)
CallLookupByCurrent ==
    /\ pc = "loaded"
    /\ \E signed_current \in LookupValues, interpolation \in Interpolations :
          LET out == LookupByCurrent(motor_data, signed_current, interpolation)
          IN  /\ lookup_result' = [by |-> "current", value |-> signed_current,
                                   interpolation |-> interpolation, out |-> out]
              /\ pc' = IF IsPanic(out) THEN "panic" ELSE "returned"
    /\ UNCHANGED <<csv, loaded, motor_data>>
    /\ UNCHANGED <<configVars, clampVars, solveVars, runVars, syncVars>>

NextTable == ReadMotorData \/ CallLookupByForce \/ CallLookupByCurrent

SpecTable == InitTable /\ [][NextTable]_vars

\* C8: lookup_by_force and lookup_by_current, on an index of exactly one row,
\* return a record (the single row is used) and do not panic.
C8_SingleRowTolerated ==
    /\ (lookup_result.by = "force" /\ Len(motor_data.force_index) = 1)
           => ~IsPanic(lookup_result.out)
    /\ (lookup_result.by = "current" /\ Len(motor_data.current_index) = 1)
           => ~IsPanic(lookup_result.out)

\* C9: a load that succeeds never yields a MotorData with an empty index: a
\* CSV with no rows fails at load.
C9_EmptyTableRejected ==
    loaded = "ok" => /\ Len(motor_data.force_index) >= 1
                     /\ Len(motor_data.current_index) >= 1

\* The last lookup returned a record from an index of two or more rows.
Returned ==
    /\ lookup_result.by # "none"
    /\ ~IsPanic(lookup_result.out)

\* The index the last lookup read, and the keys of its rows.
IndexRead ==
    IF lookup_result.by = "force" THEN motor_data.force_index
    ELSE motor_data.current_index

KeysRead ==
    IF lookup_result.by = "force" THEN ForceKeys(motor_data.force_index)
    ELSE CurrentKeys(motor_data.current_index)

\* The last lookup made again with another interpolation.
SameLookup(interpolation) ==
    IF lookup_result.by = "force"
    THEN LookupByForce(motor_data, lookup_result.value, interpolation)
    ELSE LookupByCurrent(motor_data, lookup_result.value, interpolation)

\* C17: on a table of two or more rows a lookup tagged CounterClockwise
\* returns the pwm 3000 - p, p the pwm of the same lookup tagged Clockwise,
\* and the same six other fields; a Lerp lookup returns the record of the
\* Clockwise LerpDirection lookup, pwm included, and an OriginalData lookup
\* returns a row of the index as tabulated.
C17_CounterClockwisePwm ==
    (Returned /\ Len(IndexRead) >= 2) =>
        LET out  == lookup_result.out
            kind == lookup_result.interpolation.kind
        IN  /\ (/\ kind \in {"LerpDirection", "Direction"}
                /\ lookup_result.interpolation.direction = CounterClockwise) =>
                   LET cw == SameLookup([kind |-> kind, direction |-> Clockwise])
                   IN  /\ out.pwm = 3000 - cw.pwm
                       /\ out.pwm + cw.pwm = 3000
                       /\ \A f \in Fields \ {"pwm"} : out[f] = cw[f]
            /\ kind = "Lerp" => out = SameLookup(LerpDirection(Clockwise))
            /\ kind = "OriginalData" =>
                   \E i \in 1..Len(IndexRead) : out = IndexRead[i]

\* Witness of C17: a counter-clockwise lookup between two rows returned a pwm
\* that is not a tabulated one.
C17_Witness ==
    /\ Returned
    /\ lookup_result.by = "force"
    /\ lookup_result.interpolation = LerpDirection(CounterClockwise)
    /\ Len(motor_data.force_index) >= 2
    /\ \A i \in 1..Len(motor_data.force_index) :
          /\ motor_data.force_index[i].pwm # lookup_result.out.pwm
          /\ motor_data.force_index[i].pwm # 3000 - lookup_result.out.pwm

\* C18: of a MotorData built from any list of records, force_index is
\* strictly increasing in force and current_index strictly increasing in
\* copysign(current, force), and each holds a row for every key of the list.
C18_IndicesStrictlyIncreasing ==
    loaded = "ok" =>
        LET fi == motor_data.force_index
            ci == motor_data.current_index
            Key(r) == IF r.force < 0 THEN -Abs(r.current) ELSE Abs(r.current)
        IN  /\ \A i \in 1..(Len(fi) - 1) : fi[i].force < fi[i + 1].force
            /\ \A i \in 1..(Len(ci) - 1) : Key(ci[i]) < Key(ci[i + 1])
            /\ {fi[i].force : i \in 1..Len(fi)} = {csv[i].force : i \in 1..Len(csv)}
            /\ {Key(ci[i]) : i \in 1..Len(ci)} = {Key(csv[i]) : i \in 1..Len(csv)}
            /\ \A i \in 1..Len(fi) : \E j \in 1..Len(csv) : fi[i] = csv[j]
            /\ \A i \in 1..Len(ci) : \E j \in 1..Len(csv) : ci[i] = csv[j]

\* Witness of C18: a list out of order, with two rows of one force and two
\* rows of one signed current, was loaded.
C18_Witness ==
    /\ loaded = "ok"
    /\ Len(csv) = 3
    /\ csv[1].force > csv[2].force
    /\ \E i, j \in 1..3 : i # j /\ csv[i].force = csv[j].force
    /\ Len(motor_data.current_index) = 2
    /\ Len(motor_data.force_index) = 2

\* C19: on a force index of two or more rows, a Lerp or LerpDirection
\* lookup by force interpolates the two rows that enclose the value (lower
\* key below it, upper key not below it), the first two rows for a value
\* not above the first key and the last two for a value above the last key;
\* the weight is not limited to [0, 1], so the returned force is the value
\* asked for, outside the table too.
C19_BracketAndExtrapolate ==
    (/\ Returned
     /\ lookup_result.by = "force"
     /\ lookup_result.interpolation.kind \in {"Lerp", "LerpDirection"}
     /\ Len(motor_data.force_index) >= 2) =>
        LET fi  == motor_data.force_index
            n   == Len(fi)
            v   == lookup_result.value
            out == lookup_result.out
            i   == IF v <= fi[1].force THEN 1
                   ELSE IF v > fi[n].force THEN n - 1
                   ELSE CHOOSE k \in 1..(n - 1) : fi[k].force < v /\ v <= fi[k + 1].force
            raw == IF lookup_result.interpolation.direction = CounterClockwise
                   THEN [out EXCEPT !.pwm = 3000 - out.pwm]
                   ELSE out
        IN  /\ \A f \in Fields :
                   raw[f] = RDiv((fi[i + 1].force - v) * fi[i][f]
                                     + (v - fi[i].force) * fi[i + 1][f],
                                 fi[i + 1].force - fi[i].force)
            /\ raw.force = v

\* Witness of C19: a lookup by force below the first row returned a force
\* below every tabulated force.
C19_Witness ==
    /\ Returned
    /\ lookup_result.by = "force"
    /\ lookup_result.interpolation = Lerp
    /\ Len(motor_data.force_index) >= 3
    /\ lookup_result.value < motor_data.force_index[1].force
    /\ lookup_result.out.force < motor_data.force_index[1].force
    /\ lookup_result.out.current # motor_data.force_index[1].current

\* C20: a Lerp lookup whose value is the key of a row of the index it reads
\* returns a record, and the record is that row.
C20_TabulatedPointReproduced ==
    (/\ lookup_result.by # "none"
     /\ lookup_result.interpolation = Lerp) =>
        \A j \in 1..Len(IndexRead) :
            KeysRead[j] = lookup_result.value => lookup_result.out = IndexRead[j]

\* The rows (1-based a, a + 1) of the index read that the last lookup
\* handed to interpolate: the pair around the value, the first pair for a
\* value not above the first key, the last pair for one above the last key.
BracketLower ==
    LET n == Len(IndexRead)
        v == lookup_result.value
    IN  IF v <= KeysRead[1] THEN 1
        ELSE IF v > KeysRead[n] THEN n - 1
        ELSE CHOOSE k \in 1..(n - 1) : KeysRead[k] < v /\ v <= KeysRead[k + 1]

\* C21: on an index of two or more rows an OriginalData or Direction lookup
\* returns one of the two bracketing rows with every field as tabulated
\* (the pwm un-reflected for a CounterClockwise tag): the row whose key is
\* nearer to the value, and the lower row when the two are equally near.
C21_NearestRowUnmodified ==
    (/\ Returned
     /\ lookup_result.interpolation.kind \in {"OriginalData", "Direction"}
     /\ Len(IndexRead) >= 2) =>
        LET a   == BracketLower
            v   == lookup_result.value
            out == lookup_result.out
            raw == IF lookup_result.interpolation.direction = CounterClockwise
                   THEN [out EXCEPT !.pwm = 3000 - out.pwm]
                   ELSE out
            da  == IF KeysRead[a] >= v THEN KeysRead[a] - v ELSE v - KeysRead[a]
            db  == IF KeysRead[a + 1] >= v THEN KeysRead[a + 1] - v
                   ELSE v - KeysRead[a + 1]
        IN  /\ da < db => raw = IndexRead[a]
            /\ db < da => raw = IndexRead[a + 1]
            /\ da = db => raw = IndexRead[a]

\* Witness of C21: an OriginalData lookup by force half way between two
\* rows returned the lower of them.
C21_Witness ==
    /\ Returned
    /\ lookup_result.by = "force"
    /\ lookup_result.interpolation = OriginalData
    /\ Len(motor_data.force_index) >= 2
    /\ \E k \in 1..(Len(motor_data.force_index) - 1) :
          /\ lookup_result.value - motor_data.force_index[k].force
                 = motor_data.force_index[k + 1].force - lookup_result.value
          /\ lookup_result.value > motor_data.force_index[k].force
          /\ lookup_result.out = motor_data.force_index[k]

----------------------------------------------------------------------------
(* The geometry specification: build a config from any list of pairs. *)

\* Longest list of (Id, Motor) pairs handed to new_raw.
MaxMotors == 3

\* Motor ids are 1..NumIds, ordered as the integers.
NumIds == 3

MotorIds == 1..NumIds

MotorPool ==
    { Motor(<<1, 1, 0>>, <<0, 1, 0>>, Clockwise),
      Motor(<<-1, 1, 0>>, <<0, 1, 0>>, CounterClockwise),
      Motor(<<0, -2, 0>>, <<0, 0, 1>>, Clockwise) }

CentersOfMass == {<<0, 0, 0>>, <<0, 1, -1>>}

InitConfig ==
    /\ IdleSolve /\ IdleRuns /\ IdleSync
    /\ motors_in \in SeqsUpTo(MotorIds \X MotorPool, MaxMotors)
    /\ center_mass \in CentersOfMass
    /\ motor_config = NoConfig
    /\ IdleBuild
    /\ motor_data = NoData
    /\ pc = "start"
    /\ IdleTable
    /\ IdleClamp

\* MotorConfig::new_raw(motors, center_mass)
CallNewRaw ==
    /\ pc = "start"
    /\ motor_config' = NewRaw(motors_in, center_mass)
    /\ pc' = "built"
    /\ UNCHANGED <<motors_in, center_mass, motor_data>>
    /\ UNCHANGED builderVars
    /\ UNCHANGED <<tableVars, clampVars, solveVars, runVars, syncVars>>

NextConfig == CallNewRaw

SpecConfig == InitConfig /\ [][NextConfig]_vars

\* The position in the input of the first pair with the id.
FirstOccurrence(id) ==
    CHOOSE i \in 1..Len(motors_in) :
        /\ motors_in[i][1] = id
        /\ \A j \in 1..(i - 1) : motors_in[j][1] # id

\* C10: after new_raw the motor list is strictly increasing by id, holds
\* exactly the ids of the input, and keeps for each id the motor of the
\* first pair with that id in input order.
C10_SortedDedupedKeepFirst ==
    pc = "built" =>
        LET ms == motor_config.motors
        IN  /\ \A k \in 1..(Len(ms) - 1) : ms[k][1] < ms[k + 1][1]
            /\ {ms[k][1] : k \in 1..Len(ms)} = {motors_in[i][1] : i \in 1..Len(motors_in)}
            /\ \A k \in 1..Len(ms) : ms[k][2] = motors_in[FirstOccurrence(ms[k][1])][2]

\* C11: after new_raw the matrix has one column per kept motor, and column k
\* holds the orientation of motor k in rows 0..3 and the cross product of
\* (position - center of mass) with the orientation in rows 3..6.
C11_MatrixColumns ==
    pc = "built" =>
        LET ms == motor_config.motors
            mx == motor_config.matrix
        IN  /\ Len(mx) = Len(ms)
            /\ \A k \in 1..Len(ms) :
                   LET o == ms[k][2].orientation
                       r == <<ms[k][2].position[1] - center_mass[1],
                              ms[k][2].position[2] - center_mass[2],
                              ms[k][2].position[3] - center_mass[3]>>
                   IN  mx[k] = <<o[1], o[2], o[3],
                                 r[2] * o[3] - r[3] * o[2],
                                 r[3] * o[1] - r[1] * o[3],
                                 r[1] * o[2] - r[2] * o[1]>>

\* Witness of C11: a built config of two or more motors, about a centre of
\* mass away from the origin, with a column whose torque is not zero.
C11_Witness ==
    /\ pc = "built"
    /\ Len(motor_config.motors) >= 2
    /\ center_mass # <<0, 0, 0>>
    /\ \E k \in 1..Len(motor_config.matrix) :
          SubSeq(motor_config.matrix[k], 4, 6) # <<0, 0, 0>>

\* Witness of C10: a built config whose input repeated an id, out of order,
\* with different motors.
C10_Witness ==
    /\ pc = "built"
    /\ \E i, j, k \in 1..Len(motors_in) :
          /\ i < j /\ j < k
          /\ motors_in[i][1] = motors_in[k][1]
          /\ motors_in[i][2] # motors_in[k][2]
          /\ motors_in[j][1] < motors_in[i][1]
    /\ Len(motor_config.motors) = 2

----------------------------------------------------------------------------
(* The builder specification: a config is built by the X3D or the BlueROV  *)
(* builder and erased, or built by new_raw over u8 ids; the erased config  *)
(* is then unerased to a typed id.  Alternatively the Direction functions  *)
(* are called.                                                             *)

\* Longest list of (u8, Motor) pairs from which an erased config is built.
MaxErased == 2

\* flip_n is called with a count in -MaxFlips..MaxFlips.
MaxFlips == 4

\* Seeds handed to the builders: no zero component, either spin.
SeedPool ==
    { Motor(<<3, 2, 1>>, <<1, -1, 2>>, Clockwise),
      Motor(<<2, 5, -1>>, <<-2, 1, 1>>, CounterClockwise) }

\* Erased ids: the least and the greatest that decode, the least that does
\* not, and a large one.
ErasedIds == {0, 7, 8, 200}

InitBuild ==
    /\ IdleSolve /\ IdleRuns /\ IdleSync
    /\ front_right_top \in SeedPool
    /\ lateral_front_right \in SeedPool
    /\ vertical_front_right \in SeedPool
    /\ center_mass \in CentersOfMass
    /\ motors_in \in SeqsUpTo(ErasedIds \X SeedPool, MaxErased) \ {<<>>}
    /\ motor_config = NoConfig
    /\ erased = NoConfig
    /\ unerased = NoUnerase
    /\ flip = NoFlip
    /\ motor_data = NoData
    /\ pc = "start"
    /\ IdleTable
    /\ IdleClamp

\* MotorConfig::<X3dMotorId, _>::new(front_right_top, center_mass)
CallX3dNew ==
    /\ pc = "start"
    /\ motor_config' = X3dNew(front_right_top, center_mass)
    /\ pc' = "x3d"
    /\ UNCHANGED <<motors_in, center_mass, motor_data, builderVars>>
    /\ UNCHANGED <<tableVars, clampVars, solveVars, runVars, syncVars>>

\* MotorConfig::<HeavyMotorId, _>::new(lateral_front_right, vertical_front_right,
\* center_mass)
CallHeavyNew ==
    /\ pc = "start"
    /\ motor_config' = HeavyNew(lateral_front_right, vertical_front_right, center_mass)
    /\ pc' = "heavy"
    /\ UNCHANGED <<motors_in, center_mass, motor_data, builderVars>>
    /\ UNCHANGED <<tableVars, clampVars, solveVars, runVars, syncVars>>

\* MotorConfig::<ErasedMotorId, _>::new_raw(motors, center_mass)
CallNewRawErased ==
    /\ pc = "start"
    /\ erased' = NewRaw(motors_in, center_mass)
    /\ pc' = "erased"
    /\ UNCHANGED <<motors_in, center_mass, motor_config, motor_data, front_right_top,
                   lateral_front_right, vertical_front_right, unerased, flip>>
    /\ UNCHANGED <<tableVars, clampVars, solveVars, runVars, syncVars>>

\* motor_config.erase()
CallErase ==
    /\ pc \in {"x3d", "heavy"}
    /\ erased' = Erase(motor_config)
    /\ pc' = "erased"
    /\ UNCHANGED <<motors_in, center_mass, motor_config, motor_data, front_right_top,
                   lateral_front_right, vertical_front_right, unerased, flip>>
    /\ UNCHANGED <<tableVars, clampVars, solveVars, runVars, syncVars>>

\* erased.unerase::<MotorId>()
CallUnerase ==
    /\ pc = "erased"
    /\ \E id_type \in IdTypes :
          unerased' = [target |-> id_type, result |-> Unerase(erased, id_type)]
    /\ pc' = "unerased"
    /\ UNCHANGED <<motors_in, center_mass, motor_config, motor_data, front_right_top,
                   lateral_front_right, vertical_front_right, erased, flip>>
    /\ UNCHANGED <<tableVars, clampVars, solveVars, runVars, syncVars>>

\* direction.get_sign(), Direction::from_sign(sign), direction.flip_n(count)
CallDirection ==
    /\ pc = "start"
    /\ \E direction \in Directions, count \in (-MaxFlips)..MaxFlips :
          flip' = [direction |-> direction, count |-> count,
                   sign |-> GetSign(direction),
                   out |-> FlipN(direction, count),
                   back |-> FromSign(GetSign(direction))]
    /\ pc' = "flipped"
    /\ UNCHANGED <<motors_in, center_mass, motor_config, motor_data, front_right_top,
                   lateral_front_right, vertical_front_right, erased, unerased>>
    /\ UNCHANGED <<tableVars, clampVars, solveVars, runVars, syncVars>>

NextBuild ==
    \/ CallX3dNew
    \/ CallHeavyNew
    \/ CallNewRawErased
    \/ CallErase
    \/ CallUnerase
    \/ CallDirection

SpecBuild == InitBuild /\ [][NextBuild]_vars

\* The other direction.
Opposite(direction) ==
    IF direction = Clockwise THEN CounterClockwise ELSE Clockwise

\* The config in motor_config is keyed by X3dMotorId / by HeavyMotorId.
KeyedByX3d ==
    /\ motor_config.motors # <<>>
    /\ motor_config.motors[1][1] \in X3dMotorId

KeyedByHeavy ==
    /\ motor_config.motors # <<>>
    /\ motor_config.motors[1][1] \in HeavyMotorId

\* C12: the X3D builder makes 8 motors, one per X3dMotorId; the motor of an
\* id is the seed with z negated for the Bottom ids (XY), x negated for the
\* Left ids (YZ) and y negated for the Back ids (XZ), in position and in
\* orientation, and spins as the seed after an even number of reflections
\* and the other way after an odd number.
C12_X3dLayout ==
    KeyedByX3d =>
        LET ms == motor_config.motors
        IN  /\ Len(ms) = 8
            /\ {ms[k][1] : k \in 1..Len(ms)} = X3dMotorId
            /\ \A k \in 1..Len(ms) :
                   LET id    == ms[k][1]
                       xy    == id \in {FrontRightBottom, FrontLeftBottom,
                                        BackRightBottom, BackLeftBottom}
                       yz    == id \in {FrontLeftTop, FrontLeftBottom,
                                        BackLeftTop, BackLeftBottom}
                       xz    == id \in {BackRightTop, BackRightBottom,
                                        BackLeftTop, BackLeftBottom}
                       count == Cardinality({b \in {<<1, xy>>, <<2, yz>>, <<3, xz>>} : b[2]})
                       Image(v) == <<IF yz THEN -v[1] ELSE v[1],
                                     IF xz THEN -v[2] ELSE v[2],
                                     IF xy THEN -v[3] ELSE v[3]>>
                   IN  /\ ms[k][2].position = Image(front_right_top.position)
                       /\ ms[k][2].orientation = Image(front_right_top.orientation)
                       /\ ms[k][2].direction =
                              IF count % 2 = 0 THEN front_right_top.direction
                              ELSE Opposite(front_right_top.direction)

\* Witness of C12: the X3D builder ran on a counter-clockwise seed.
C12_Witness ==
    /\ pc = "x3d"
    /\ KeyedByX3d
    /\ front_right_top.direction = CounterClockwise
    /\ Len(motor_config.motors) = 8

\* C13: the BlueROV builder makes 8 motors, one per HeavyMotorId; a Lateral
\* id is the lateral seed and a Vertical id the vertical seed, with x negated
\* for the Left ids (YZ) and y negated for the Back ids (XZ), z kept, and the
\* spin flipped once per reflection.
C13_HeavyLayout ==
    KeyedByHeavy =>
        LET ms == motor_config.motors
        IN  /\ Len(ms) = 8
            /\ {ms[k][1] : k \in 1..Len(ms)} = HeavyMotorId
            /\ \A k \in 1..Len(ms) :
                   LET id    == ms[k][1]
                       seed  == IF id \in {LateralFrontRight, LateralFrontLeft,
                                           LateralBackRight, LateralBackLeft}
                                THEN lateral_front_right
                                ELSE vertical_front_right
                       yz    == id \in {LateralFrontLeft, LateralBackLeft,
                                        VerticalFrontLeft, VerticalBackLeft}
                       xz    == id \in {LateralBackRight, LateralBackLeft,
                                        VerticalBackRight, VerticalBackLeft}
                       Image(v) == <<IF yz THEN -v[1] ELSE v[1],
                                     IF xz THEN -v[2] ELSE v[2],
                                     v[3]>>
                   IN  /\ ms[k][2].position = Image(seed.position)
                       /\ ms[k][2].orientation = Image(seed.orientation)
                       /\ ms[k][2].direction =
                              IF yz = xz THEN seed.direction
                              ELSE Opposite(seed.direction)

\* Witness of C13: the BlueROV builder ran on two different seeds.
C13_Witness ==
    /\ pc = "heavy"
    /\ KeyedByHeavy
    /\ lateral_front_right # vertical_front_right
    /\ Len(motor_config.motors) = 8

\* The id type of the typed config in motor_config.
TypeOfConfig == IF KeyedByX3d THEN "X3dMotorId" ELSE "HeavyMotorId"

\* C14: erase keeps the matrix, the pseudo-inverse and the motors in their
\* order, and the erased list is strictly increasing by its u8 id; unerase
\* keeps them too; and unerase of the erased config to the id type it was
\* erased from returns the original config.
C14_EraseUneraseRoundTrip ==
    /\ (pc \in {"erased", "unerased"} /\ motor_config # NoConfig) =>
           /\ erased.matrix = motor_config.matrix
           /\ erased.pseudo_inverse = motor_config.pseudo_inverse
           /\ Len(erased.motors) = Len(motor_config.motors)
           /\ \A k \in 1..Len(erased.motors) :
                  /\ erased.motors[k][2] = motor_config.motors[k][2]
                  /\ erased.motors[k][1] \in 0..255
           /\ \A k \in 1..(Len(erased.motors) - 1) :
                  erased.motors[k][1] < erased.motors[k + 1][1]
    /\ (pc = "unerased" /\ unerased.result.ok) =>
           /\ unerased.result.config.matrix = erased.matrix
           /\ unerased.result.config.pseudo_inverse = erased.pseudo_inverse
           /\ Len(unerased.result.config.motors) = Len(erased.motors)
           /\ \A k \in 1..Len(erased.motors) :
                  unerased.result.config.motors[k][2] = erased.motors[k][2]
    /\ (pc = "unerased" /\ motor_config # NoConfig /\ unerased.target = TypeOfConfig) =>
           /\ unerased.result.ok
           /\ unerased.result.config = motor_config

\* Witness of C14: a typed config built about a centre of mass away from the
\* origin was erased and unerased to its own id type.
C14_Witness ==
    /\ pc = "unerased"
    /\ motor_config # NoConfig
    /\ center_mass # <<0, 0, 0>>
    /\ unerased.target = TypeOfConfig
    /\ unerased.result.ok
    /\ erased.motors # motor_config.motors

\* C15: unerase returns Ok exactly when every u8 id of the list is below 8;
\* otherwise it returns the conversion error of an id of the list that is
\* not, and no config.
C15_UneraseFallible ==
    pc = "unerased" =>
        LET ids == {erased.motors[k][1] : k \in 1..Len(erased.motors)}
        IN  /\ unerased.result.ok <=> \A id \in ids : id < 8
            /\ ~unerased.result.ok =>
                   /\ unerased.result.config = <<>>
                   /\ unerased.result.error.number \in {id \in ids : id >= 8}
            /\ unerased.result.ok =>
                   /\ unerased.result.error = <<>>
                   /\ Len(unerased.result.config.motors) = Len(erased.motors)

\* Witness of C15: unerase failed on a list in which one id decodes and one
\* does not.
C15_Witness ==
    /\ pc = "unerased"
    /\ ~unerased.result.ok
    /\ Len(erased.motors) = 2
    /\ erased.motors[1][1] < 8
    /\ erased.motors[2][1] >= 8

\* C16: get_sign is +1 for Clockwise and -1 for CounterClockwise; flip_n
\* returns the direction for an even count and the other direction for an
\* odd count; from_sign of get_sign is the direction.
C16_DirectionSigns ==
    pc = "flipped" =>
        /\ flip.sign = (IF flip.direction = Clockwise THEN 1 ELSE -1)
        /\ flip.count % 2 = 0 => flip.out = flip.direction
        /\ flip.count % 2 = 1 => flip.out = Opposite(flip.direction)
        /\ flip.back = flip.direction

\* Witness of C16: a counter-clockwise direction was flipped an odd, negative
\* number of times.
C16_Witness ==
    /\ pc = "flipped"
    /\ flip.direction = CounterClockwise
    /\ flip.count < 0
    /\ flip.count % 2 = 1
    /\ flip.out = Clockwise

----------------------------------------------------------------------------
(* The saturator specification: commands of a built config and table are    *)
(* clamped by clamp_amperage_fast or by clamp_amperage, whose loop takes    *)
(* one step per iteration; the output of clamp_amperage may be clamped      *)
(* once more.                                                               *)

\* Most thrusters a command set names.
MaxThrusters == 2

\* The iteration counter stops counting here.
MaxIters == 40

\* Tables as the CSV lists them (unsorted): a convex current curve through
\* (0, 0); the same curve with an idle current at zero force; a curve with a
\* kink.
ConvexTable ==
    << Rec(1500, 0, 0, 1600, 0, 0, 0),
       Rec(1100, 3400, 2000, 1600, 32000, -800, 25),
       Rec(1700, 2400, 600, 1600, 9600, 500, 50),
       Rec(1300, 2000, 600, 1600, 9600, -400, 40),
       Rec(1900, 3600, 2000, 1600, 32000, 1000, 30) >>

IdleCurrentTable ==
    << Rec(1100, 3400, 2000, 1600, 32000, -800, 25),
       Rec(1300, 2000, 600, 1600, 9600, -400, 40),
       Rec(1500, 0, 20, 1600, 320, 0, 0),
       Rec(1700, 2400, 600, 1600, 9600, 500, 50),
       Rec(1900, 3600, 2000, 1600, 32000, 1000, 30) >>

KinkedTable ==
    << Rec(1100, 3400, 2000, 1600, 32000, -1000, 30),
       Rec(1200, 3000, 200, 1600, 3200, -800, 150),
       Rec(1500, 0, 0, 1600, 0, 0, 0),
       Rec(1800, 3000, 200, 1600, 3200, 800, 150),
       Rec(1900, 3600, 2000, 1600, 32000, 1000, 30) >>

ClampTables == {ConvexTable, IdleCurrentTable, KinkedTable}

\* The config of the saturator runs: motor id of MotorIds, alternating spin.
ClampConfig ==
    NewRaw([id \in MotorIds |->
               <<id, Motor(<<id, 1, 0>>, <<0, 0, 1>>,
                           IF id % 2 = 1 THEN Clockwise ELSE CounterClockwise)>>],
           <<0, 0, 0>>)

\* Forces requested of one thruster.
ForcePool == {-400, 0, 300, 1000}

Caps == {0, 30, 150, 600}

Epsilons == {5, 20}

ForceMaps == UNION {[1..n -> ForcePool] : n \in 1..MaxThrusters}

InitClamp ==
    /\ IdleSolve /\ IdleRuns /\ IdleSync
    /\ \E table \in ClampTables : motor_data = MotorDataFrom(table)
    /\ motor_config = ClampConfig
    /\ IdleBuild
    /\ \E forces \in ForceMaps :
          motor_cmds = ForcesToCmds(forces, ClampConfig, motor_data)
    /\ amperage_cap \in Caps
    /\ epsilon \in Epsilons
    /\ call = "none"
    /\ round = 1
    /\ lower_bound = 0 /\ lower_current = 0
    /\ upper_bound = 0 /\ upper_current = 0
    /\ mid = 0 /\ iters = 0 /\ exit = "none" /\ force_ratio = 0
    /\ result = <<>> /\ first_result = <<>> /\ lookups = 0
    /\ pc = "ready"
    /\ motors_in = <<>> /\ center_mass = <<0, 0, 0>>
    /\ IdleTable

NumCmds == Cardinality(DOMAIN motor_cmds)

\* clamp_amperage_fast(motor_cmds, &motor_config, &motor_data, amperage_cap)
CallClampAmperageFast ==
    /\ pc = "ready" /\ round = 1
    /\ call' = "fast"
    /\ result' = ClampAmperageFast(motor_cmds, motor_config, motor_data, amperage_cap)
    /\ exit' = IF UnderCap(motor_cmds, amperage_cap) THEN "early" ELSE "scaled"
    /\ lookups' = IF UnderCap(motor_cmds, amperage_cap) THEN 0 ELSE NumCmds
    /\ pc' = "done"
    /\ UNCHANGED <<motor_cmds, amperage_cap, epsilon, round, lower_bound,
                   lower_current, upper_bound, upper_current, mid, iters,
                   force_ratio, first_result>>
    /\ UNCHANGED <<motor_data, tableVars, configVars, solveVars, runVars, syncVars>>

\* clamp_amperage up to the loop: the early return, or the initial locals of
\* binary_search_force_ratio.
CallClampAmperage ==
    /\ pc = "ready"
    /\ call' = "iter"
    /\ lookups' = 0
    /\ iters' = 0
    /\ IF UnderCap(motor_cmds, amperage_cap)
       THEN /\ result' = motor_cmds
            /\ exit' = "early"
            /\ pc' = "done"
            /\ UNCHANGED <<lower_bound, lower_current, upper_bound, upper_current, mid>>
       ELSE /\ lower_bound' = 0 /\ lower_current' = 0
            /\ upper_bound' = Infinity /\ upper_current' = Infinity
            /\ mid' = Scale
            /\ pc' = "bisect"
            /\ UNCHANGED <<result, exit>>
    /\ UNCHANGED <<motor_cmds, amperage_cap, epsilon, round, force_ratio, first_result>>
    /\ UNCHANGED <<motor_data, tableVars, configVars, solveVars, runVars, syncVars>>

\* One iteration of the loop of binary_search_force_ratio.  An exit returns
\* the ratio to clamp_amperage, which looks every command up at it and returns.
BisectStep ==
    /\ pc = "bisect"
    /\ iters' = Min(iters + 1, MaxIters)
    /\ lookups' = NumCmds * iters'
    /\ LET mid_current == MidCurrent(motor_cmds, motor_config, motor_data, mid)
       IN  IF ZeroExit(mid_current) \/ EpsExit(mid_current, amperage_cap, epsilon)
           THEN /\ force_ratio' = ReturnedRatio(mid_current, mid)
                /\ exit' = IF ZeroExit(mid_current) THEN "zero" ELSE "eps"
                /\ result' = AdjustedMotorCmds(motor_cmds, motor_config, motor_data,
                                             force_ratio')
                /\ pc' = "done"
                /\ UNCHANGED <<lower_bound, lower_current, upper_bound, upper_current, mid>>
           ELSE LET b == UpdatedBounds(lower_bound, lower_current, upper_bound,
                                       upper_current, mid, mid_current, amperage_cap)
                IN  /\ lower_bound' = b.lower_bound
                    /\ lower_current' = b.lower_current
                    /\ upper_bound' = b.upper_bound
                    /\ upper_current' = b.upper_current
                    /\ mid' = NextMid(b, mid, mid_current, amperage_cap)
                    /\ UNCHANGED <<force_ratio, exit, result, pc>>
    /\ UNCHANGED <<motor_cmds, amperage_cap, epsilon, call, round, first_result>>
    /\ UNCHANGED <<motor_data, tableVars, configVars, solveVars, runVars, syncVars>>

\* The caller hands the output of clamp_amperage to clamp_amperage again.
Reapply ==
    /\ pc = "done" /\ call = "iter" /\ round = 1
    /\ first_result' = result
    /\ motor_cmds' = result
    /\ round' = 2
    /\ pc' = "ready"
    /\ UNCHANGED <<amperage_cap, epsilon, call, lower_bound, lower_current,
                   upper_bound, upper_current, mid, iters, exit, force_ratio,
                   result, lookups>>
    /\ UNCHANGED <<motor_data, tableVars, configVars, solveVars, runVars, syncVars>>

NextClamp == CallClampAmperageFast \/ CallClampAmperage \/ BisectStep \/ Reapply

SpecClamp == InitClamp /\ [][NextClamp]_vars

\* Samples of the force ratio at which MonotoneInRatio compares summed currents.
RatioSamples == 20

\* The summed current does not decrease as the force ratio grows from 0 to 1.
MonotoneInRatio ==
    \A i \in 0..(RatioSamples - 1) :
        MidCurrent(motor_cmds, motor_config, motor_data, (i * Scale) \div RatioSamples)
            <= MidCurrent(motor_cmds, motor_config, motor_data,
                          ((i + 1) * Scale) \div RatioSamples)

LoopLocals == <<lower_bound, lower_current, upper_bound, upper_current, mid>>

\* C1: the currents of the commands either saturator returns sum to at most
\* cap + epsilon.
C1_SumWithinCap ==
    pc = "done" => SumCurrent(result) <= amperage_cap + epsilon

\* C2: with a summed current monotone in the force ratio the loop
\* of clamp_amperage ends within 32 iterations, and ends with
\* |sum of currents - cap| < epsilon.
C2_EndsWithin32AtCap ==
    (call = "iter" /\ MonotoneInRatio) =>
        /\ iters <= 32
        /\ (pc = "done" /\ exit # "early")
               => Abs(SumCurrent(result) - amperage_cap) < epsilon

\* C3: the loop of clamp_amperage stops: no iteration leaves the loop with
\* the locals it began with (the loop is deterministic, so an iteration that
\* does is repeated without end).
C3_LoopNeverRepeats ==
    [][(pc = "bisect" /\ pc' = "bisect") => LoopLocals' # LoopLocals]_vars

\* C4: no command returned by a saturator has a force of the sign opposite
\* to the force of the input command with the same id.
C4_SignsPreserved ==
    pc = "done" =>
        \A id \in DOMAIN result : result[id].force * motor_cmds[id].force >= 0

\* C5: when the currents of the input commands sum to at most the cap, both
\* saturators return the input mapping itself and look nothing up.
C5_UnchangedUnderCap ==
    (pc = "done" /\ SumCurrent(motor_cmds) <= amperage_cap) =>
        /\ result = motor_cmds
        /\ lookups = 0

\* Witness of C5: a call returned early on commands that sum exactly to a
\* positive cap.
C5_Witness ==
    /\ pc = "done" /\ exit = "early" /\ call = "fast"
    /\ amperage_cap > 0
    /\ SumCurrent(motor_cmds) = amperage_cap
    /\ result = motor_cmds

\* C6: clamp_amperage applied to its own output returns, for every id, a
\* record whose every field is within epsilon of the first output's.
C6_Idempotent ==
    (call = "iter" /\ round = 2 /\ pc = "done") =>
        /\ DOMAIN result = DOMAIN first_result
        /\ \A id \in DOMAIN result : \A f \in Fields :
               Abs(result[id][f] - first_result[id][f]) <= epsilon

\* Witness of C6: the first application scaled the commands, and the second
\* application ran the loop again on its output.
C6_Witness ==
    /\ call = "iter" /\ round = 2 /\ pc = "done"
    /\ exit = "eps"
    /\ first_result # <<>>
    /\ \E id \in DOMAIN result : first_result[id].force # 0

----------------------------------------------------------------------------
(* The solver specification: on a built config and a loaded table, one of  *)
(* reverse_solve, forward_solve, forces_to_cmds and axis_maximums is       *)
(* called.                                                                 *)

\* The (Id, Motor) lists the solver configs are built from, ids out of
\* order: three thrusters along x, y and z at the centre of mass, and two
\* vertical thrusters either side of it (no thruster has id 2).
SolveMotors ==
    { << <<3, Motor(<<0, 0, 0>>, <<0, 0, 1>>, Clockwise)>>,
         <<1, Motor(<<0, 0, 0>>, <<1, 0, 0>>, Clockwise)>>,
         <<2, Motor(<<0, 0, 0>>, <<0, 1, 0>>, CounterClockwise)>> >>,
      << <<3, Motor(<<-1, 0, 0>>, <<0, 0, 1>>, CounterClockwise)>>,
         <<1, Motor(<<1, 0, 0>>, <<0, 0, 1>>, Clockwise)>> >> }

\* Wrenches asked of reverse_solve.
Wrenches ==
    { Movement(<<300, 0, -200>>, <<0, 100, 0>>),
      Movement(<<0, 0, 400>>, <<0, -200, 0>>),
      Movement(<<0, 500, 0>>, <<200, 0, 0>>) }

\* Forces given for one thruster in a mapping.
SolveForces == {-400, 300}

\* The id -> force mappings: any subset of the ids, so some lack an id of
\* the config and some hold an id the config lacks.
ForceMappings == UNION {[ids -> SolveForces] : ids \in SUBSET MotorIds}

SolveTables == {ConvexTable, IdleCurrentTable}

SolveCaps == {150, 600}

InitSolve ==
    /\ motors_in \in SolveMotors
    /\ center_mass = <<0, 0, 0>>
    /\ motor_config = NewRaw(motors_in, center_mass)
    /\ IdleBuild
    /\ \E table \in SolveTables : motor_data = MotorDataFrom(table)
    /\ movement \in Wrenches
    /\ motor_forces \in ForceMappings
    /\ solved = NoSolve
    /\ amperage_cap \in SolveCaps
    /\ epsilon \in Epsilons
    /\ motor_cmds = <<>> /\ call = "none" /\ round = 0
    /\ lower_bound = 0 /\ lower_current = 0
    /\ upper_bound = 0 /\ upper_current = 0
    /\ mid = 0 /\ iters = 0 /\ exit = "none" /\ force_ratio = 0
    /\ result = <<>> /\ first_result = <<>> /\ lookups = 0
    /\ pc = "ready"
    /\ IdleTable
    /\ IdleRuns
    /\ IdleSync

\* reverse_solve(movement, &motor_config)
CallReverseSolve ==
    /\ pc = "ready"
    /\ solved' = [fn |-> "reverse_solve", returned |-> TRUE,
                  out |-> ReverseSolve(movement, motor_config)]
    /\ pc' = "done"
    /\ UNCHANGED <<movement, motor_forces, motor_data>>
    /\ UNCHANGED <<tableVars, configVars, clampVars, runVars, syncVars>>

\* forward_solve(&motor_config, &motor_forces)
CallForwardSolve ==
    /\ pc = "ready"
    /\ solved' = [fn |-> "forward_solve", returned |-> TRUE,
                  out |-> ForwardSolve(motor_config, motor_forces)]
    /\ pc' = "done"
    /\ UNCHANGED <<movement, motor_forces, motor_data>>
    /\ UNCHANGED <<tableVars, configVars, clampVars, runVars, syncVars>>

\* forces_to_cmds(motor_forces, &motor_config, &motor_data)
CallForcesToCmds ==
    /\ pc = "ready"
    /\ LET r == ForcesToCmdsResult(motor_forces, motor_config, motor_data)
       IN  /\ solved' = [fn |-> "forces_to_cmds", returned |-> r.ok, out |-> r.cmds]
           /\ pc' = IF r.ok THEN "done" ELSE "panic"
    /\ UNCHANGED <<movement, motor_forces, motor_data>>
    /\ UNCHANGED <<tableVars, configVars, clampVars, runVars, syncVars>>

\* axis_maximums(&motor_config, &motor_data, amperage_cap, epsilon): the call
\* returns if the bisection returns for every axis within MaxIters iterations.
CallAxisMaximums ==
    /\ pc = "ready"
    /\ LET r == AxisMaximums(motor_config, motor_data, amperage_cap, epsilon, MaxIters)
       IN  /\ solved' = [fn |-> "axis_maximums", returned |-> r.returned, out |-> r.out]
           /\ pc' = IF r.returned THEN "done" ELSE "running"
    /\ UNCHANGED <<movement, motor_forces, motor_data>>
    /\ UNCHANGED <<tableVars, configVars, clampVars, runVars, syncVars>>

NextSolve == CallReverseSolve \/ CallForwardSolve \/ CallForcesToCmds \/ CallAxisMaximums

SpecSolve == InitSolve /\ [][NextSolve]_vars

\* The direction the config gives the motor with the id.
ConfiguredDirection(id) ==
    LET k == CHOOSE k \in 1..Len(motor_config.motors) : motor_config.motors[k][1] = id
    IN  motor_config.motors[k][2].direction

\* C22: on a table of two or more rows, forces_to_cmds given only ids of
\* the config returns a mapping with exactly the ids of the input, each to
\* the record lookup_by_force returns for its force with LerpDirection of
\* the thruster's configured direction; given an id the config lacks it
\* panics and returns no mapping.
C22_OnePerIdOrPanic ==
    solved.fn = "forces_to_cmds" =>
        IF DOMAIN motor_forces \subseteq ConfigIds(motor_config)
        THEN /\ solved.returned
             /\ pc = "done"
             /\ DOMAIN solved.out = DOMAIN motor_forces
             /\ \A id \in DOMAIN motor_forces :
                    solved.out[id] =
                        LookupByForce(motor_data, motor_forces[id],
                                      LerpDirection(ConfiguredDirection(id)))
        ELSE /\ ~solved.returned
             /\ pc = "panic"
             /\ solved.out = <<>>

\* Witness of C22: a mapping of two or more ids, one of them not in the
\* config, made forces_to_cmds panic.
C22_Witness ==
    /\ solved.fn = "forces_to_cmds"
    /\ pc = "panic"
    /\ Cardinality(DOMAIN motor_forces) >= 2
    /\ \E id \in DOMAIN motor_forces : id \in ConfigIds(motor_config)
    /\ \E id \in DOMAIN motor_forces : id \notin ConfigIds(motor_config)

\* C23: reverse_solve returns a mapping whose keys are exactly the ids of
\* the config, and the value of the k-th motor in increasing id order is
\* row k of pseudo_inverse times <<fx, fy, fz, tx, ty, tz>>.
C23_ReverseSolveRows ==
    solved.fn = "reverse_solve" =>
        LET ms == motor_config.motors
            pi == motor_config.pseudo_inverse
            w  == <<movement.force[1], movement.force[2], movement.force[3],
                    movement.torque[1], movement.torque[2], movement.torque[3]>>
        IN  /\ DOMAIN solved.out = {ms[k][1] : k \in 1..Len(ms)}
            /\ Cardinality(DOMAIN solved.out) = Len(ms)
            /\ \A k \in 1..(Len(ms) - 1) : ms[k][1] < ms[k + 1][1]
            /\ \A k \in 1..Len(ms) :
                   solved.out[ms[k][1]] =
                       RDiv(pi[k][1] * w[1] + pi[k][2] * w[2] + pi[k][3] * w[3]
                                + pi[k][4] * w[4] + pi[k][5] * w[5] + pi[k][6] * w[6],
                            Scale)

\* Witness of C23: reverse_solve of a wrench with a force and a torque, on a
\* config built from pairs out of id order, returned two different forces
\* that are not zero.
C23_Witness ==
    /\ solved.fn = "reverse_solve"
    /\ motors_in[1][1] > motors_in[2][1]
    /\ movement.torque # <<0, 0, 0>>
    /\ \E id1, id2 \in DOMAIN solved.out :
          /\ solved.out[id1] # 0 /\ solved.out[id2] # 0
          /\ solved.out[id1] # solved.out[id2]

\* C24: forward_solve returns the matrix times the vector that holds, for
\* the k-th motor in increasing id order, the force the mapping gives its id
\* or zero when the mapping has no such id; ids of the mapping that are not
\* in the config play no part; rows 0..3 are the force, rows 3..6 the torque.
C24_ForwardSolveProduct ==
    solved.fn = "forward_solve" =>
        LET ms == motor_config.motors
            n  == Len(ms)
            f  == [k \in 1..n |-> IF ms[k][1] \in DOMAIN motor_forces
                                  THEN motor_forces[ms[k][1]] ELSE 0]
            Row(j) == SumOver([k \in 1..n |-> motor_config.matrix[k][j] * f[k]], 1..n)
        IN  /\ solved.out.force = <<Row(1), Row(2), Row(3)>>
            /\ solved.out.torque = <<Row(4), Row(5), Row(6)>>
            /\ \A k \in 1..(n - 1) : ms[k][1] < ms[k + 1][1]

\* Witness of C24: forward_solve of a mapping that lacks an id of the config
\* and holds an id the config lacks returned a force and a torque.
C24_Witness ==
    /\ solved.fn = "forward_solve"
    /\ \E id \in ConfigIds(motor_config) : id \notin DOMAIN motor_forces
    /\ \E id \in DOMAIN motor_forces : id \notin ConfigIds(motor_config)
    /\ solved.out.force # <<0, 0, 0>>
    /\ solved.out.torque # <<0, 0, 0>>

\* The wrench of magnitude 25 along the i-th axis alone.
Probe(i) ==
    LET w == [j \in 1..6 |-> IF j = i THEN 2500 ELSE 0]
    IN  Movement(<<w[1], w[2], w[3]>>, <<w[4], w[5], w[6]>>)

\* C26: when axis_maximums returns, the mapping has exactly the six axes
\* X, Y, Z, XRot, YRot, ZRot, and the value of the i-th of them is s * 25,
\* s the ratio the bisection returns for the commands forces_to_cmds builds
\* from the reverse_solve of the wrench of magnitude 25 along that axis.
C26_AxisMaximums ==
    (solved.fn = "axis_maximums" /\ solved.returned) =>
        LET names == <<"X", "Y", "Z", "XRot", "YRot", "ZRot">>
            S(i)  == BinarySearchFrom(
                         ForcesToCmds(ReverseSolve(Probe(i), motor_config),
                                      motor_config, motor_data),
                         motor_config, motor_data, amperage_cap, epsilon,
                         InitialLocals, MaxIters)
        IN  /\ DOMAIN solved.out = {"X", "Y", "Z", "XRot", "YRot", "ZRot"}
            /\ \A i \in 1..6 :
                   /\ S(i).returned
                   /\ solved.out[names[i]] = RDiv(S(i).ratio * 2500, Scale)

\* Witness of C26: axis_maximums returned different values for two force
\* axes and for two rotation axes, one of them scaled down from 25.
C26_Witness ==
    /\ solved.fn = "axis_maximums" /\ solved.returned
    /\ solved.out["X"] # solved.out["Z"]
    /\ solved.out["XRot"] # solved.out["YRot"]
    /\ solved.out["YRot"] < 2500
    /\ solved.out["YRot"] > 0

\* C27: when clamp_amperage scales (it did not return early), there is one
\* scalar s, the ratio the bisection returned, such that the record returned
\* for every thruster is the lookup_by_force of its input force times s,
\* with LerpDirection of its configured direction, and has that force.
C27_OneSharedScalar ==
    (call = "iter" /\ pc = "done" /\ exit \in {"zero", "eps"}) =>
        LET s == force_ratio
        IN  /\ DOMAIN result = DOMAIN motor_cmds
            /\ \A id \in DOMAIN motor_cmds :
                   LET scaled == RDiv(motor_cmds[id].force * s, Scale)
                   IN  /\ result[id] = LookupByForce(motor_data, scaled,
                                            LerpDirection(ConfiguredDirection(id)))
                       /\ result[id].force = scaled

\* Witness of C27: clamp_amperage scaled two thrusters with different
\* forces, neither zero, by a ratio strictly between 0 and 1.
C27_Witness ==
    /\ call = "iter" /\ pc = "done" /\ exit = "eps" /\ round = 1
    /\ force_ratio > 0 /\ force_ratio < Scale
    /\ Cardinality(DOMAIN motor_cmds) = 2
    /\ \A id \in DOMAIN motor_cmds : motor_cmds[id].force # 0
    /\ motor_cmds[1].force # motor_cmds[2].force
    /\ \A id \in DOMAIN result : result[id].force # motor_cmds[id].force

\* The summed current of the commands looked up at their force times ratio.
SumAt(ratio) ==
    SumOver([id \in DOMAIN motor_cmds |->
                LookupByForce(motor_data, RDiv(motor_cmds[id].force * ratio, Scale),
                              LerpDirection(ConfiguredDirection(id))).current],
            DOMAIN motor_cmds)

\* C28: the bisection begins with s = 1; a step at which the summed current
\* at s is exactly zero returns 1, whatever s is and even if zero is within
\* epsilon of the cap (the zero test comes first); a step at which the sum
\* is not zero but within epsilon of the cap returns s; any other step does
\* not return.
C28_StartAndExits ==
    [][pc = "bisect" =>
          /\ (iters = 0 => mid = Scale)
          /\ IF SumAt(mid) = 0
             THEN pc' = "done" /\ force_ratio' = Scale
             ELSE IF (IF SumAt(mid) >= amperage_cap THEN SumAt(mid) - amperage_cap
                      ELSE amperage_cap - SumAt(mid)) < epsilon
             THEN pc' = "done" /\ force_ratio' = mid
             ELSE pc' = "bisect"]_vars

\* Witness of C28: the loop returned 1 at a step whose s was not 1 and whose
\* summed current, zero, was also within epsilon of the cap.
C28_Witness ==
    /\ call = "iter" /\ pc = "done" /\ exit = "zero"
    /\ mid # Scale
    /\ force_ratio = Scale
    /\ amperage_cap < epsilon
    /\ iters >= 2

\* C29: after every update of the bounds lower_current < cap <= upper_current;
\* while upper_bound is infinite the next s is s * cap / sum; once it is
\* finite upper_current and lower_current differ (no division by zero) and
\* the next s is upper_bound * alpha + lower_bound * (1 - alpha), with
\* alpha = (cap - lower_current) / (upper_current - lower_current), which is
\* neither below lower_bound nor above upper_bound.
C29_BracketInvariant ==
    [][(pc = "bisect" /\ pc' = "bisect") =>
          /\ lower_current' < amperage_cap
          /\ amperage_cap <= upper_current'
          /\ upper_bound' = Infinity =>
                 mid' = RDiv(mid * amperage_cap, SumAt(mid))
          /\ upper_bound' # Infinity =>
                 /\ upper_current' # lower_current'
                 /\ mid' = RDiv(upper_bound' * (amperage_cap - lower_current')
                                   + lower_bound' * (upper_current' - amperage_cap),
                               upper_current' - lower_current')
                 /\ lower_bound' <= mid'
                 /\ mid' <= upper_bound']_vars

----------------------------------------------------------------------------
(* The two-run specification: the same call is made on the same inputs in  *)
(* two runs of the program.  A mapping is a std HashMap with the hasher    *)
(* StableState builds: what one run can see of it beyond its entries is    *)
(* the order in which it iterates.  The hash function is not part of this  *)
(* code, so any function of the seeds and the id is allowed (hash_of).     *)

Runs == {1, 2}

\* The seeds StableState::build_hasher passes to RandomState::with_seeds.
StableSeeds == <<1, 2, 3, 4>>

\* Seeds a hasher state seeded at random may have.
OtherSeeds == <<4, 3, 2, 1>>

HasherSeeds == {StableSeeds, OtherSeeds}

HashValues == {0, 1}

\* A build_hasher whose seeds differ from one run to the other.
BuildHasherPerRun(run) == IF run = 1 THEN StableSeeds ELSE OtherSeeds

\* StableState::build_hasher, in whatever run.
BuildHasher(run) == StableSeeds

\* The order a HashMap iterates in: by the hash of the key, and by insertion
\* among keys of one hash.  ins lists the keys in insertion order.
IterationOrder(seeds, ins) ==
    LET n       == Len(ins)
        h(k)    == hash_of[seeds][ins[k]]
        Rank(k) == Cardinality({j \in 1..n : h(j) < h(k) \/ (h(j) = h(k) /\ j < k)})
    IN  [p \in 1..n |-> ins[CHOOSE k \in 1..n : Rank(k) = p - 1]]

\* What iterating a mapping yields: its entries in its iteration order.
Listing(order, map) == [p \in 1..Len(order) |-> <<order[p], map[order[p]]>>]

\* clamp_amperage as a function: the early return, or the commands at the
\* ratio the bisection returns (within fuel iterations).
ClampAmperage(cmds, config, md, cap, eps, fuel) ==
    IF UnderCap(cmds, cap) THEN [returned |-> TRUE, cmds |-> cmds]
    ELSE LET r == BinarySearchFrom(cmds, config, md, cap, eps, InitialLocals, fuel)
         IN  IF r.returned
             THEN [returned |-> TRUE,
                   cmds |-> AdjustedMotorCmds(cmds, config, md, r.ratio)]
             ELSE [returned |-> FALSE, cmds |-> <<>>]

\* The force the caller asks of each thruster.
ForceOfId == <<300, -400, 1000>>

RunMotors ==
    << <<3, Motor(<<0, 0, 0>>, <<0, 0, 1>>, Clockwise)>>,
       <<1, Motor(<<0, 0, 0>>, <<1, 0, 0>>, Clockwise)>>,
       <<2, Motor(<<0, 0, 0>>, <<0, 1, 0>>, CounterClockwise)>> >>

\* Insertion orders of the input mapping: two or three different ids.
InsertionOrders ==
    {ins \in SeqsUpTo(1..3, 3) :
        /\ Len(ins) >= 2
        /\ \A i, j \in 1..Len(ins) : i # j => ins[i] # ins[j]}

RunCaps == {600, 3000}

NoRun == [fn |-> "none", returned |-> FALSE, out |-> <<>>]

InitRuns ==
    /\ IdleSolve /\ IdleSync
    /\ motors_in = RunMotors
    /\ center_mass = <<0, 0, 0>>
    /\ motor_config = NewRaw(motors_in, center_mass)
    /\ IdleBuild
    /\ motor_data = MotorDataFrom(ConvexTable)
    /\ hash_of \in [HasherSeeds -> [1..3 -> HashValues]]
    /\ inserted \in InsertionOrders
    /\ runs = [r \in Runs |-> NoRun]
    /\ amperage_cap \in RunCaps
    /\ epsilon = 5
    /\ motor_cmds = <<>> /\ call = "none" /\ round = 0
    /\ lower_bound = 0 /\ lower_current = 0
    /\ upper_bound = 0 /\ upper_current = 0
    /\ mid = 0 /\ iters = 0 /\ exit = "none" /\ force_ratio = 0
    /\ result = <<>> /\ first_result = <<>> /\ lookups = 0
    /\ pc = "ready"
    /\ IdleTable

\* The wrench and the forces of the runs.
RunMovement == Movement(<<300, 0, -200>>, <<0, 100, 0>>)

RunForces == [id \in {inserted[i] : i \in 1..Len(inserted)} |-> ForceOfId[id]]

\* The order in which run iterates the forces mapping the caller built, and
\* the commands mapping forces_to_cmds built from iterating it.
ForcesOrder(run) == IterationOrder(BuildHasher(run), inserted)

CmdsOrder(run) == IterationOrder(BuildHasher(run), ForcesOrder(run))

RunCmds == ForcesToCmds(RunForces, motor_config, motor_data)

\* reverse_solve in one run: the mapping is filled in the order of the motors.
RunReverseSolve(run) ==
    /\ runs[run].fn = "none"
    /\ LET order == IterationOrder(BuildHasher(run),
                                   [k \in 1..Len(motor_config.motors) |->
                                       motor_config.motors[k][1]])
       IN  runs' = [runs EXCEPT ![run] =
                       [fn |-> "reverse_solve", returned |-> TRUE,
                        out |-> Listing(order, ReverseSolve(RunMovement, motor_config))]]
    /\ UNCHANGED <<hash_of, inserted, motor_data, pc>>
    /\ UNCHANGED <<tableVars, configVars, clampVars, solveVars, syncVars>>

\* forces_to_cmds in one run: the mapping is filled in the order the forces
\* mapping iterates.
RunForcesToCmds(run) ==
    /\ runs[run].fn = "none"
    /\ runs' = [runs EXCEPT ![run] =
                    [fn |-> "forces_to_cmds", returned |-> TRUE,
                     out |-> Listing(CmdsOrder(run), RunCmds)]]
    /\ UNCHANGED <<hash_of, inserted, motor_data, pc>>
    /\ UNCHANGED <<tableVars, configVars, clampVars, solveVars, syncVars>>

\* clamp_amperage_fast in one run on the commands of forces_to_cmds: the
\* input mapping itself under the cap, else a mapping filled in the order
\* the input iterates.
RunClampAmperageFast(run) ==
    /\ runs[run].fn = "none"
    /\ LET out   == ClampAmperageFast(RunCmds, motor_config, motor_data, amperage_cap)
           order == IF UnderCap(RunCmds, amperage_cap) THEN CmdsOrder(run)
                    ELSE IterationOrder(BuildHasher(run), CmdsOrder(run))
       IN  runs' = [runs EXCEPT ![run] =
                       [fn |-> "clamp_amperage_fast", returned |-> TRUE,
                        out |-> Listing(order, out)]]
    /\ UNCHANGED <<hash_of, inserted, motor_data, pc>>
    /\ UNCHANGED <<tableVars, configVars, clampVars, solveVars, syncVars>>

\* clamp_amperage in one run on the commands of forces_to_cmds.
RunClampAmperage(run) ==
    /\ runs[run].fn = "none"
    /\ LET r     == ClampAmperage(RunCmds, motor_config, motor_data, amperage_cap,
                                  epsilon, MaxIters)
           order == IF UnderCap(RunCmds, amperage_cap) THEN CmdsOrder(run)
                    ELSE IterationOrder(BuildHasher(run), CmdsOrder(run))
       IN  runs' = [runs EXCEPT ![run] =
                       [fn |-> "clamp_amperage", returned |-> r.returned,
                        out |-> IF r.returned THEN Listing(order, r.cmds) ELSE <<>>]]
    /\ UNCHANGED <<hash_of, inserted, motor_data, pc>>
    /\ UNCHANGED <<tableVars, configVars, clampVars, solveVars, syncVars>>

NextRuns ==
    \E run \in Runs :
        \/ RunReverseSolve(run)
        \/ RunForcesToCmds(run)
        \/ RunClampAmperageFast(run)
        \/ RunClampAmperage(run)

SpecRuns == InitRuns /\ [][NextRuns]_vars

----------------------------------------------------------------------------
(* The peer bookkeeping of net_read (robot/src/plugins/core/sync.rs).  The  *)
(* network thread sends NetEvents down a channel; the system net_read      *)
(* drains the channel once per frame.  Its Commands (spawn, despawn) are   *)
(* deferred: they reach the world after the system has returned, and its   *)
(* Query sees the world as it was when the system began.                   *)

\* Connections accepted over a behaviour.
MaxPeers == 3

\* Events the channel holds at most (channel::bounded).
MaxQueue == 3

NetTokens == {1, 2}

SocketAddrs == {1, 2}

\* HashMap::insert and HashMap::remove on a mapping held as a function.
MapInsert(map, key, value) ==
    [k \in DOMAIN map \cup {key} |-> IF k = key THEN value ELSE map[k]]

MapRemove(map, key) == [k \in DOMAIN map \ {key} |-> map[k]]

MapValues(map) == {map[k] : k \in DOMAIN map}

\* The resources and the command queue net_read works on.
SyncLocals ==
    [by_token |-> by_token, by_addrs |-> by_addrs, singleton_map |-> singleton_map,
     commands |-> commands, entities |-> entities, errors |-> 0]

\* One pass of the loop body of net_read over one event.  seen is the world
\* the Query reads: the entities spawned before the system began.
HandleEvent(st, event, seen) ==
    IF event.kind \in {"Conected", "Accepted"}
    THEN LET entity == st.entities + 1
         IN  [st EXCEPT
                 !.entities = entity,
                 !.commands = Append(@, [op |-> "spawn", entity |-> entity,
                                         addrs |-> event.addrs, token |-> event.token]),
                 !.by_token = MapInsert(@, event.token, entity),
                 !.by_addrs = MapInsert(@, event.addrs, entity),
                 !.singleton_map = MapInsert(@, event.token, entity)]
    ELSE IF event.kind = "Data" THEN st
    ELSE IF event.kind = "Error" THEN [st EXCEPT !.errors = @ + 1]
    ELSE IF event.token \notin DOMAIN st.by_token
         THEN [st EXCEPT !.errors = @ + 1]
    ELSE LET entity  == st.by_token[event.token]
             removed == [st EXCEPT !.by_token = MapRemove(@, event.token)]
         IN  IF entity \notin DOMAIN seen
             THEN [removed EXCEPT !.errors = @ + 1]
             ELSE [removed EXCEPT
                      !.by_addrs = MapRemove(@, seen[entity].addrs),
                      !.singleton_map = MapRemove(@, event.token),
                      !.commands = Append(@, [op |-> "despawn", entity |-> entity,
                                              addrs |-> 0, token |-> event.token])]

\* for event in net.1.try_iter(): the events in the order they were sent.
RECURSIVE HandleAll(_, _, _)
HandleAll(st, events, seen) ==
    IF events = <<>> THEN st
    ELSE HandleAll(HandleEvent(st, Head(events), seen), Tail(events), seen)

\* The world once the queued commands are applied in order.
RECURSIVE Applied(_, _)
Applied(w, cs) ==
    IF cs = <<>> THEN w
    ELSE LET c == Head(cs)
         IN  Applied(IF c.op = "spawn"
                     THEN MapInsert(w, c.entity, [addrs |-> c.addrs, token |-> c.token])
                     ELSE MapRemove(w, c.entity),
                     Tail(cs))

\* Connect events sent so far: those handled and those still in the channel.
Connects ==
    entities + Cardinality({i \in 1..Len(net_events) :
                               net_events[i].kind \in {"Conected", "Accepted"}})

InitSync ==
    /\ IdleTable /\ IdleConfig /\ IdleClamp /\ IdleSolve /\ IdleRuns
    /\ motor_data = NoData
    /\ net_events = <<>>
    /\ by_token = <<>> /\ by_addrs = <<>> /\ singleton_map = <<>>
    /\ world = <<>> /\ commands = <<>> /\ entities = 0
    /\ connected = <<>> /\ errors = 0
    /\ pc = "frame"

\* The network thread connects to or accepts a peer: a token and an address
\* no connection it holds is using.
NetConnect ==
    /\ Len(net_events) < MaxQueue
    /\ Connects < MaxPeers
    /\ \E token \in NetTokens \ DOMAIN connected,
          addrs \in SocketAddrs \ MapValues(connected),
          kind \in {"Conected", "Accepted"} :
          /\ net_events' = Append(net_events,
                                  [kind |-> kind, token |-> token, addrs |-> addrs])
          /\ connected' = MapInsert(connected, token, addrs)
    /\ UNCHANGED <<by_token, by_addrs, singleton_map, world, commands, entities,
                   errors, motor_data, pc>>
    /\ UNCHANGED <<tableVars, configVars, clampVars, solveVars, runVars>>

\* The network thread passes on a packet or an error of a connection.
NetData ==
    /\ Len(net_events) < MaxQueue
    /\ \E token \in DOMAIN connected, kind \in {"Data", "Error"} :
          net_events' = Append(net_events, [kind |-> kind, token |-> token, addrs |-> 0])
    /\ UNCHANGED <<by_token, by_addrs, singleton_map, world, commands, entities,
                   connected, errors, motor_data, pc>>
    /\ UNCHANGED <<tableVars, configVars, clampVars, solveVars, runVars>>

\* The network thread loses a connection.
NetDisconnect ==
    /\ Len(net_events) < MaxQueue
    /\ \E token \in DOMAIN connected :
          /\ net_events' = Append(net_events,
                                  [kind |-> "Disconnect", token |-> token, addrs |-> 0])
          /\ connected' = MapRemove(connected, token)
    /\ UNCHANGED <<by_token, by_addrs, singleton_map, world, commands, entities,
                   errors, motor_data, pc>>
    /\ UNCHANGED <<tableVars, configVars, clampVars, solveVars, runVars>>

\* net_read: every event in the channel is handled, in order.
NetRead ==
    /\ pc = "frame"
    /\ net_events # <<>>
    /\ LET st == HandleAll(SyncLocals, net_events, world)
       IN  /\ by_token' = st.by_token
           /\ by_addrs' = st.by_addrs
           /\ singleton_map' = st.singleton_map
           /\ commands' = st.commands
           /\ entities' = st.entities
           /\ errors' = st.errors
    /\ net_events' = <<>>
    /\ pc' = "deferred"
    /\ UNCHANGED <<world, connected, motor_data>>
    /\ UNCHANGED <<tableVars, configVars, clampVars, solveVars, runVars>>

\* The Commands net_read queued are applied to the world at the end of its
\* schedule stage, before net_read runs again.
ApplyDeferred ==
    /\ pc = "deferred"
    /\ world' = Applied(world, commands)
    /\ commands' = <<>>
    /\ pc' = "frame"
    /\ UNCHANGED <<net_events, by_token, by_addrs, singleton_map, entities,
                   connected, errors, motor_data>>
    /\ UNCHANGED <<tableVars, configVars, clampVars, solveVars, runVars>>

NextSync == NetConnect \/ NetData \/ NetDisconnect \/ NetRead \/ ApplyDeferred

SpecSync == InitSync /\ [][NextSync]_vars

\* C30: by_token and by_addrs always hold the same set of peer entities,
\* and once net_read has handled every event sent, by_token, by_addrs and
\* singleton_map hold entries for the connections that are still up and
\* for no other: a peer that has disconnected has no entry left in any of
\* the three, also when its connect and its disconnect were drained by the
\* same call of net_read.
C30_PeerBookkeeping ==
    /\ MapValues(by_token) = MapValues(by_addrs)
    /\ net_events = <<>> =>
           /\ DOMAIN by_token = DOMAIN connected
           /\ DOMAIN singleton_map = DOMAIN connected
           /\ DOMAIN by_addrs = MapValues(connected)

====
